---------------------------- MODULE Spec2Model ----------------------------
(***************************************************************************)
(* Zabbix Metrics Extractor: the desktop shell's download run (gui.py),    *)
(* the chart downloader (chart_downloader.py), the trend analyzer          *)
(* (trend_analyzer.py) and the PDF report aggregator (pdf_generator.py).   *)
(*                                                                         *)
(* Eight specifications share the module:                                  *)
(*   SpecPdf   one PDFReportGenerator object driven through its public     *)
(*             methods add_item_data / generate_report / clear_data;       *)
(*   SpecCfg   the same object with the report configuration set;          *)
(*   Spec      the application from construction: the foreground Tk        *)
(*             thread, the callbacks it is sent with after(), and the      *)
(*             threads that connect and load the inventory;                *)
(*   SpecRun   the download queue and the download thread on a session     *)
(*             that has connected and loaded its items;                    *)
(*   SpecTime  one resolution of a period to a pair of timestamps;         *)
(*   SpecStats one summary of a trend series;                              *)
(*   SpecReconnect  connecting again and downloading on a loaded session;  *)
(*   SpecPaths the names of the output files of two items of one run.      *)
(***************************************************************************)
EXTENDS Integers, Sequences, FiniteSets, TLC

(***************************************************************************)
(* Bounds of the model.                                                    *)
(***************************************************************************)
\* most entries one PDFReportGenerator accumulates in SpecPdf
MaxEntries == 3
\* most callbacks waiting in Tk's after() queue
MaxPending == 2
\* most connect attempts the operator makes
MaxConnects == 2
\* most points of a trend series in SpecStats
MaxSeries == 3
\* most points of a trend series of four hours in SpecStats
MaxPeakSeries == 4

(***************************************************************************)
(* The inventory the monitoring server answers with.                       *)
(***************************************************************************)
Hosts == {"h1", "h2"}
ItemNames == {"cpu", "mem"}

\* get_templates / get_hosts_by_template / get_items_by_host answer sorted by
\* name (zabbix_client.py:135, :160, :185)
ServerTemplates == <<"t1">>
ServerHosts == <<"h1", "h2">>
ServerItems(h) == IF h = "h1" THEN <<"cpu", "mem">> ELSE <<"cpu">>

\* unique_id = f"{host_id}_{item['itemid']}" (gui.py:642, :772) with the
\* {'item': item, 'host': host} it is the key of
UID(h, n) == [host |-> h, item |-> n]
NoItem == UID("", "")

\* the value generate_report returns when there is nothing to render or the
\* build failed (pdf_generator.py:508, :616)
NoPath == ""
\* the path generate_report returns after a successful build (:613)
PdfPath == "informe_ejecutivo.pdf"

VARIABLES
    \* ---- one PDFReportGenerator (pdf_generator.py:69-95) ----
    items_data,      \* self.items_data: the accumulated entries, in add order
    current_host,    \* self.current_host
    report_config,   \* self.report_config: key -> text
    host_configs,    \* self.host_configs: host name -> (key -> text)
    \* ---- the outcome of the most recent call on that object ----
    last_op,         \* "init" | "config" | "add" | "render" | "clear"
    ret,             \* what the call returned (NoPath / PdfPath for render)
    story,           \* the flowables generate_report handed to doc.build
    chart_errors,    \* the entries it logged "Failed to create chart" for
    wrote_file       \* whether the call left a PDF file on disk

pdfVars == <<items_data, current_host, report_config, host_configs,
             last_op, ret, story, chart_errors, wrote_file>>

VARIABLES
    \* ---- ZabbixExtractorApp, state of the foreground (gui.py:51-62) ----
    connected,               \* zabbix_client._connected
    chart_downloader,        \* self.chart_downloader: "None" | "logged_in" | "not_logged_in"
    templates,               \* self.templates
    hosts,                   \* self.hosts
    all_items,               \* self.all_items: its keys (host ids) in insertion order
    template_buttons,        \* self.template_buttons
    host_checkboxes,         \* self.host_checkboxes, in insertion order
    item_checkboxes,         \* self.item_checkboxes, in insertion order
    common_item_checkboxes,  \* self.common_item_checkboxes, in insertion order
    selected_items,          \* self.selected_items: the download queue, in insertion order
    download_btn,            \* state of self.download_btn
    connect_btn,             \* state of self.connect_btn
    load_items_btn,          \* state of self.load_items_btn
    afterQ,                  \* callbacks scheduled with self.after(0, ...), oldest first
    connects,                \* connect attempts made so far
    \* ---- background threads ----
    conn,                    \* connect_thread (gui.py:450-467)
    hostsw,                  \* fetch_hosts (gui.py:526-532)
    itemsw,                  \* fetch_all_items (gui.py:599-613)
    dl                       \* download_thread (gui.py:1041-1181), per thread

fgVars == <<connected, chart_downloader, templates, hosts, all_items,
            template_buttons, host_checkboxes, item_checkboxes,
            common_item_checkboxes, selected_items, download_btn, connect_btn,
            load_items_btn, afterQ, connects>>

bgVars == <<conn, hostsw, itemsw, dl>>

guiVars == <<fgVars, bgVars>>

VARIABLES
    \* ---- one resolution of a time range (chart_downloader.py:86-117,
    \*      trend_analyzer.py:68-104) ----
    period_type,     \* the period the operator picked
    time_range,      \* what calculate_time_range returned for it
    now,             \* the datetime.now() _convert_time_range read
    timestamps,      \* what _convert_time_range returned
    \* ---- one call of calculate_statistics (trend_analyzer.py:145-199) ----
    trends,          \* the trend series handed in
    stats,           \* the dict returned
    \* ---- the output files of two items of one run (gui.py:1095-1099,
    \*      chart_downloader.py:233-237, trend_analyzer.py:125-126, :328-329) ----
    named_items,     \* the host name and the item name of each of the two
    artifact_paths   \* the paths of the files written for each of them

calcVars == <<period_type, time_range, now, timestamps, trends, stats,
              named_items, artifact_paths>>

vars == <<pdfVars, guiVars, calcVars>>

(***************************************************************************)
(* Helpers on sequences.                                                   *)
(***************************************************************************)
Range(s) == {s[i] : i \in 1..Len(s)}

Indices(s) == [i \in 1..Len(s) |-> i]

\* s is a subsequence of t: its elements appear in t in the same relative order
RECURSIVE IsSubSeq(_, _)
IsSubSeq(s, t) ==
    IF s = <<>> THEN TRUE
    ELSE IF t = <<>> THEN FALSE
    ELSE IF Head(s) = Head(t) THEN IsSubSeq(Tail(s), Tail(t))
    ELSE IsSubSeq(s, Tail(t))

(***************************************************************************)
(* PDFReportGenerator                                                      *)
(***************************************************************************)

\* an entry as add_item_data stores it; trends / stats / conclusion are kept
\* as "is non-empty", which is all generate_report tests
Entry(h, i, t, s, c) ==
    [host |-> h, item |-> i, trends |-> t, stats |-> s, conclusion |-> c]

\* `if not self.items_data` (pdf_generator.py:506)
NothingToRenderNever(data) == FALSE
NothingToRender(data) == data = <<>>

\* the keys of the `hosts` dict built at :528-533, in insertion order
GroupHostsLastSeen(data) ==
    LET F[k \in 0..Len(data)] ==
            IF k = 0 THEN <<>>
            ELSE LET h == data[k].host
                     prev == F[k-1]
                 IN  Append(SelectSeq(prev, LAMBDA x : x # h), h)
    IN  F[Len(data)]
GroupHosts(data) ==
    LET F[k \in 0..Len(data)] ==
            IF k = 0 THEN <<>>
            ELSE LET h == data[k].host
                     prev == F[k-1]
                 IN  IF h \in Range(prev) THEN prev ELSE Append(prev, h)
    IN  F[Len(data)]

\* hosts[h]: the entries of host h in add order (:533), as indices into data
GroupItems(data, h) ==
    SelectSeq(Indices(data), LAMBDA k : data[k].host = h)

\* `if host_idx > 0` (:538); host_idx counts from 0 in the source, from 1 here
NeedsPageBreakAlways(host_pos) == TRUE
NeedsPageBreak(host_pos) == host_pos > 1

\* ---- texts and dicts ----
\* a text is a sequence of tokens; the token " " stands for white space
Whitespace == {" "}

\* str.strip(): the text without its leading and trailing white space
RECURSIVE LStrip(_)
LStrip(t) ==
    IF t = <<>> THEN <<>>
    ELSE IF Head(t) \in Whitespace THEN LStrip(Tail(t)) ELSE t

Reverse(t) == [k \in 1..Len(t) |-> t[Len(t) + 1 - k]]

Strip(t) == Reverse(LStrip(Reverse(LStrip(t))))

\* {} and dict.get(key, default)
EmptyDict == [k \in {} |-> <<>>]

DictGet(d, key, default) == IF key \in DOMAIN d THEN d[key] ELSE default

OperativeKeys == <<"incidentes", "riesgos", "alertas">>
DimKeys == <<"dim_rendimiento", "dim_contingencia", "dim_soporte",
             "dim_actualizaciones", "dim_respaldos">>
UptimeKeys == <<"uptime_fecha", "uptime_servidor", "uptime_bd">>

\* self.report_defaults (pdf_generator.py:82-91); set_report_config replaces
\* it by the table the caller passes (:100-101), and the application passes a
\* table with the same content (gui.py:353-362, :1063)
ReportDefaults ==
    [k \in Range(OperativeKeys) \cup Range(DimKeys) |->
        CASE k = "incidentes" -> <<"No se presentan incidentes de servicio.">>
          [] k = "riesgos" -> <<"No se registran riesgos del servicio durante el periodo.">>
          [] k = "alertas" -> <<"No se evidencian alertas que afecten la continuidad operativa.">>
          [] OTHER -> <<"Sin", " ", "observaciones">>]

\* _get_config_value (:107-112)
_get_config_value(key) ==
    LET value == Strip(DictGet(report_config, key, <<>>))
    IN  IF value = <<>> THEN DictGet(ReportDefaults, key, <<>>) ELSE value

\* self.current_host while the section at host_pos is built (:542)
CurrentHostFirst(order, host_pos) == order[1]
CurrentHost(order, host_pos) == order[host_pos]

\* _get_host_config_value (:114-120) with self.current_host = cur
_get_host_config_value(cur, key) ==
    LET host_config == DictGet(host_configs, cur, EmptyDict)
        value == Strip(DictGet(host_config, key, <<>>))
    IN  IF value = <<>> THEN DictGet(ReportDefaults, key, <<>>) ELSE value

\* _create_operative_block (:360-384): the three paragraphs
OperativeBlock(h, cur) ==
    [kind |-> "Operative", host |-> h,
     incidentes |-> _get_host_config_value(cur, "incidentes"),
     riesgos |-> _get_host_config_value(cur, "riesgos"),
     alertas |-> _get_host_config_value(cur, "alertas")]

\* _create_dimensions_table (:419-452): the value column of the five rows
DimensionsTable(h) ==
    [kind |-> "Dimensions", host |-> h,
     rows |-> [k \in 1..Len(DimKeys) |-> _get_config_value(DimKeys[k])]]

\* the label _create_uptime_section puts before a field's value (:471-476)
UptimeLabel(key) ==
    CASE key = "uptime_fecha" -> "Fecha Último Inicio"
      [] key = "uptime_servidor" -> "Uptime Servidor"
      [] key = "uptime_bd" -> "Uptime BD"

\* whether _create_uptime_section gives a field a row (:471-476)
UptimeShownAlways(value) == TRUE
UptimeShown(value) == value # <<>>

\* _create_uptime_section (:454-494): nothing when the three fields are
\* blank, else the title and a table with a row per field that is not
UptimeSection(h) ==
    LET value == [k \in 1..Len(UptimeKeys) |->
                     Strip(DictGet(report_config, UptimeKeys[k], <<>>))]
        shown == SelectSeq(Indices(UptimeKeys), LAMBDA k : UptimeShown(value[k]))
    IN  IF \A k \in 1..Len(UptimeKeys) : value[k] = <<>>
        THEN <<>>
        ELSE << [kind |-> "UptimeTitle", host |-> h],
                [kind |-> "UptimeTable", host |-> h,
                 rows |-> [j \in 1..Len(shown) |->
                             [key |-> UptimeKeys[shown[j]],
                              label |-> UptimeLabel(UptimeKeys[shown[j]]),
                              value |-> value[shown[j]]]]] >>

\* the entries generate_report logs a chart error for (:582-588): those with
\* trend data whose _create_chart raises
ChartErrors(data, chart_fails) == {k \in chart_fails : k \in 1..Len(data) /\ data[k].trends}

\* the flowables of one item subsection (:574-607). chart_fails holds the
\* indices of the entries whose _create_chart raises.
ItemFlowablesNoneOnChartError(data, k, chart_fails) ==
    IF k \in chart_fails THEN <<>>
    ELSE LET e == data[k]
             section == [kind |-> "KeepTogether", host |-> e.host, item |-> e.item,
                         idx |-> k, chart |-> e.trends, cards |-> e.stats]
         IN  IF e.conclusion
             THEN <<section, [kind |-> "Analysis", host |-> e.host, item |-> e.item, idx |-> k]>>
             ELSE <<section>>
ItemFlowables(data, k, chart_fails) ==
    LET e == data[k]
        section == [kind |-> "KeepTogether", host |-> e.host, item |-> e.item,
                    idx |-> k,
                    chart |-> e.trends /\ k \notin chart_fails,
                    cards |-> e.stats]
    IN  IF e.conclusion
        THEN <<section, [kind |-> "Analysis", host |-> e.host, item |-> e.item, idx |-> k]>>
        ELSE <<section>>

RECURSIVE ItemsFlowables(_, _, _)
ItemsFlowables(data, idxs, chart_fails) ==
    IF idxs = <<>> THEN <<>>
    ELSE ItemFlowables(data, Head(idxs), chart_fails)
            \o ItemsFlowables(data, Tail(idxs), chart_fails)

\* one host section (:536-607); spacers and the divider carry no content and
\* are left out
HostSection(data, host_pos, h, chart_fails) ==
    (IF NeedsPageBreak(host_pos) THEN <<[kind |-> "PageBreak"]>> ELSE <<>>)
    \o << [kind |-> "HostHeader", host |-> h],
          [kind |-> "DateInfo", host |-> h],
          OperativeBlock(h, CurrentHost(GroupHosts(data), host_pos)),
          [kind |-> "Glossary", host |-> h],
          DimensionsTable(h) >>
    \o UptimeSection(h)
    \o << [kind |-> "ItemsTitle", host |-> h] >>
    \o ItemsFlowables(data, GroupItems(data, h), chart_fails)

\* the story generate_report builds (:525-607)
BuildStory(data, chart_fails) ==
    LET order == GroupHosts(data)
        F[p \in 0..Len(order)] ==
            IF p = 0 THEN <<>>
            ELSE F[p-1] \o HostSection(data, p, order[p], chart_fails)
    IN  F[Len(order)]

\* self.current_host once the host loop has run (:542)
LastHost(data, before) ==
    LET order == GroupHosts(data)
    IN  IF order = <<>> THEN before ELSE order[Len(order)]

\* self.items_data when generate_report returns: no line of :496-616 assigns it
ItemsAfterRenderCleared(data) == <<>>
ItemsAfterRender(data) == data

\* PDFReportGenerator.__init__ (:69-95)
PdfState ==
    /\ items_data = <<>>
    /\ current_host = ""
    /\ report_config = EmptyDict
    /\ host_configs = EmptyDict
    /\ last_op = "init"
    /\ ret = NoPath
    /\ story = <<>>
    /\ chart_errors = {}
    /\ wrote_file = FALSE

\* set_report_config (:97-101)
set_report_config(config) ==
    /\ report_config' = config
    /\ last_op' = "config"
    /\ ret' = NoPath
    /\ story' = <<>>
    /\ chart_errors' = {}
    /\ wrote_file' = FALSE
    /\ UNCHANGED <<items_data, current_host, host_configs>>

\* set_host_configs (:103-105)
set_host_configs(configs) ==
    /\ host_configs' = configs
    /\ last_op' = "config"
    /\ ret' = NoPath
    /\ story' = <<>>
    /\ chart_errors' = {}
    /\ wrote_file' = FALSE
    /\ UNCHANGED <<items_data, current_host, report_config>>

\* add_item_data (:182-201)
add_item_data(h, i, t, s, c) ==
    /\ Len(items_data) < MaxEntries
    /\ items_data' = Append(items_data, Entry(h, i, t, s, c))
    /\ last_op' = "add"
    /\ ret' = NoPath
    /\ story' = <<>>
    /\ chart_errors' = {}
    /\ wrote_file' = FALSE
    /\ UNCHANGED <<current_host, report_config, host_configs>>

\* generate_report (:496-616). build_ok: doc.build returns; on a failed
\* build the file may or may not have been created (left_file).
generate_report(chart_fails, build_ok, left_file) ==
    /\ last_op' = "render"
    /\ UNCHANGED <<report_config, host_configs>>
    /\ IF NothingToRender(items_data)
       THEN /\ ret' = NoPath
            /\ story' = <<>>
            /\ chart_errors' = {}
            /\ wrote_file' = FALSE
            /\ UNCHANGED <<items_data, current_host>>
       ELSE /\ story' = BuildStory(items_data, chart_fails)
            /\ chart_errors' = ChartErrors(items_data, chart_fails)
            /\ current_host' = LastHost(items_data, current_host)
            /\ ret' = IF build_ok THEN PdfPath ELSE NoPath
            /\ wrote_file' = IF build_ok THEN TRUE ELSE left_file
            /\ items_data' = ItemsAfterRender(items_data)

\* clear_data (:618-620)
clear_data ==
    /\ items_data' = <<>>
    /\ last_op' = "clear"
    /\ ret' = NoPath
    /\ story' = <<>>
    /\ chart_errors' = {}
    /\ wrote_file' = FALSE
    /\ UNCHANGED <<current_host, report_config, host_configs>>

(***************************************************************************)
(* ZabbixExtractorApp: the foreground thread                               *)
(*                                                                         *)
(* Writes to the console widget (_log_to_console and the after() callback  *)
(* it schedules) are left out: no other part of the program reads them.    *)
(***************************************************************************)

\* the download threads the model follows. _on_download starts a thread per
\* click (gui.py:1183); the model follows one thread at a time, and C1 asks
\* whether the program can start another while it runs.
Workers == {"download_thread"}

\* room for n more callbacks in the after() queue
Room(n) == Len(afterQ) + n <= MaxPending

\* a dict key set by d[k] = v keeps its position when k is already present
DictSet(keys, k) == IF k \in Range(keys) THEN keys ELSE Append(keys, k)

\* the state _update_summary leaves the download button in (gui.py:804-813,
\* :834-835)
UpdateSummaryBtn(sel) == IF sel = <<>> THEN "disabled" ELSE "normal"

\* a download thread that is not running
IdleWorker ==
    [pc |-> "idle", gen_conclusion |-> FALSE, api_key |-> FALSE, gen_pdf |-> FALSE,
     total |-> 0, di_used |-> 0, di_pos |-> 0, cur |-> NoItem,
     success_count |-> 0, processed |-> <<>>, events |-> <<>>, analysis |-> "",
     entries |-> <<>>, summary |-> FALSE, cause |-> "", pdf_ret |-> NoPath]

Running(w) == dl[w].pc # "idle"

\* ZabbixExtractorApp.__init__ (gui.py:39-72); the download button is
\* created disabled (:367) and _update_summary keeps it so (:376, :811-812)
GuiState ==
    /\ connected = FALSE
    /\ chart_downloader = "None"
    /\ templates = <<>>
    /\ hosts = <<>>
    /\ all_items = <<>>
    /\ template_buttons = <<>>
    /\ host_checkboxes = <<>>
    /\ item_checkboxes = <<>>
    /\ common_item_checkboxes = <<>>
    /\ selected_items = <<>>
    /\ download_btn = "disabled"
    /\ connect_btn = "normal"
    /\ load_items_btn = "disabled"
    /\ afterQ = <<>>
    /\ connects = 0
    /\ conn = "idle"
    /\ hostsw = "idle"
    /\ itemsw = [pc |-> "idle", sel |-> <<>>, k |-> 0]
    /\ dl = [w \in Workers |-> IdleWorker]

\* _on_connect (gui.py:432-469) with every field filled in and a URL that
\* starts with http:// or https://; otherwise it returns after a message box
\* (:438-444) and changes nothing
_on_connect ==
    /\ connect_btn = "normal"
    /\ connects < MaxConnects
    /\ connect_btn' = "disabled"
    /\ conn' = "login"
    /\ connects' = connects + 1
    /\ UNCHANGED <<connected, chart_downloader, templates, hosts, all_items,
                   template_buttons, host_checkboxes, item_checkboxes,
                   common_item_checkboxes, selected_items, download_btn,
                   load_items_btn, afterQ, hostsw, itemsw, dl>>
    /\ UNCHANGED <<pdfVars, calcVars>>

\* _on_template_selected (gui.py:515-534); one fetch_hosts thread at a time
_on_template_selected(t) ==
    /\ t \in Range(template_buttons)
    /\ hostsw = "idle"
    /\ hostsw' = "fetch"
    /\ UNCHANGED <<fgVars, conn, itemsw, dl, pdfVars, calcVars>>

\* _load_items_for_selected_hosts (gui.py:589-615). sel: the hosts whose
\* checkbox is ticked, in checkbox order; one fetch_all_items thread at a time
_load_items_for_selected_hosts(sel) ==
    /\ sel # <<>>
    /\ itemsw.pc = "idle"
    /\ load_items_btn' = "disabled"
    /\ itemsw' = [pc |-> "clear", sel |-> sel, k |-> 1]
    /\ UNCHANGED <<connected, chart_downloader, templates, hosts, all_items,
                   template_buttons, host_checkboxes, item_checkboxes,
                   common_item_checkboxes, selected_items, download_btn,
                   connect_btn, afterQ, connects,
                   conn, hostsw, dl, pdfVars, calcVars>>

\* the checkboxes _populate_items creates (gui.py:619-646), reading the
\* items self.all_items holds for each host at that moment
RECURSIVE PopulateItems(_, _)
PopulateItems(sel, loaded) ==
    IF sel = <<>> THEN <<>>
    ELSE LET h == Head(sel)
             its == IF h \in Range(loaded) THEN ServerItems(h) ELSE <<>>
         IN  [n \in 1..Len(its) |-> UID(h, its[n])] \o PopulateItems(Tail(sel), loaded)

\* sorted() over item names (gui.py:715)
SortedNames == <<"cpu", "mem">>

\* the checkboxes _populate_common_items creates (gui.py:689-739): the item
\* names every loaded host has, sorted
PopulateCommon(loaded) ==
    IF loaded = <<>> THEN <<>>
    ELSE SelectSeq(SortedNames,
                   LAMBDA n : \A k \in 1..Len(loaded) : n \in Range(ServerItems(loaded[k])))

\* the queue after _add_selected_items (gui.py:675-680): the ticked items
\* not yet queued are appended in checkbox order
AddSelected(sel, boxes, chk) ==
    sel \o SelectSeq(boxes, LAMBDA u : u \in chk /\ u \notin Range(sel))

\* _add_selected_items (gui.py:673-685); chk: the ticked item checkboxes.
\* With nothing new to add it changes nothing (:682)
_add_selected_items(chk) ==
    LET new == AddSelected(selected_items, item_checkboxes, chk)
    IN  /\ new # selected_items
        /\ selected_items' = new
        /\ download_btn' = UpdateSummaryBtn(new)
        /\ UNCHANGED <<connected, chart_downloader, templates, hosts, all_items,
                       template_buttons, host_checkboxes, item_checkboxes,
                       common_item_checkboxes, connect_btn, load_items_btn,
                       afterQ, connects, bgVars, pdfVars, calcVars>>

\* the items _add_common_items_to_all_hosts walks over (gui.py:757-775): for
\* every loaded host that still has a host checkbox, its items with a ticked name
RECURSIVE CommonCandidates(_, _, _)
CommonCandidates(loaded, boxes, names) ==
    IF loaded = <<>> THEN <<>>
    ELSE LET h == Head(loaded)
             its == IF h \in Range(boxes)
                    THEN SelectSeq(ServerItems(h), LAMBDA n : n \in names)
                    ELSE <<>>
         IN  [n \in 1..Len(its) |-> UID(h, its[n])]
                \o CommonCandidates(Tail(loaded), boxes, names)

\* _add_common_items_to_all_hosts (gui.py:741-785); names: the ticked names.
\* With no name ticked, or nothing new to add, it changes nothing (:749-751, :785)
_add_common_items_to_all_hosts(names) ==
    LET cand == CommonCandidates(all_items, host_checkboxes, names)
        new == selected_items \o SelectSeq(cand, LAMBDA u : u \notin Range(selected_items))
    IN  /\ common_item_checkboxes # <<>>
        /\ new # selected_items
        /\ selected_items' = new
        /\ download_btn' = UpdateSummaryBtn(new)
        /\ UNCHANGED <<connected, chart_downloader, templates, hosts, all_items,
                       template_buttons, host_checkboxes, item_checkboxes,
                       common_item_checkboxes, connect_btn, load_items_btn,
                       afterQ, connects, bgVars, pdfVars, calcVars>>

\* _clear_selection (gui.py:837-841)
_clear_selection ==
    /\ selected_items' = <<>>
    /\ download_btn' = UpdateSummaryBtn(<<>>)
    /\ UNCHANGED <<connected, chart_downloader, templates, hosts, all_items,
                   template_buttons, host_checkboxes, item_checkboxes,
                   common_item_checkboxes, connect_btn, load_items_btn,
                   afterQ, connects, bgVars, pdfVars, calcVars>>

\* the thread slot _on_download starts its thread in
FreeWorker == CHOOSE w \in Workers : ~Running(w)

\* _on_download (gui.py:1026-1039, :1183); a disabled button does not call
\* it, and with an empty queue or no chart downloader it returns after a
\* message box (:1028-1034) and changes nothing
_on_download ==
    /\ download_btn = "normal"
    /\ selected_items # <<>>
    /\ chart_downloader # "None"
    /\ \E w \in Workers : ~Running(w)
    /\ download_btn' = "disabled"
    /\ dl' = [dl EXCEPT ![FreeWorker] = [IdleWorker EXCEPT !.pc = "setup"]]
    /\ UNCHANGED <<connected, chart_downloader, templates, hosts, all_items,
                   template_buttons, host_checkboxes, item_checkboxes,
                   common_item_checkboxes, selected_items, connect_btn,
                   load_items_btn, afterQ, connects, conn, hostsw, itemsw, pdfVars, calcVars>>

\* the foreground runs the oldest callback scheduled with after(0, ...):
\*   connect_success  _on_connect_success (gui.py:471-477) with _populate_templates
\*   connect_error    _on_connect_error (gui.py:479-484)
\*   populate_hosts   _populate_hosts (gui.py:538-556)
\*   items_loaded     the lambdas of gui.py:607, :608 and :613, scheduled back to back
\*   progress         the lambda of gui.py:1145
\*   run_end          the message box of gui.py:1167 / :1170 / :1178 and then the
\*                    lambda of :1181, scheduled back to back
RunCallback ==
    /\ afterQ # <<>>
    /\ afterQ' = Tail(afterQ)
    /\ LET m == Head(afterQ) IN
       /\ connect_btn' = IF m.cb \in {"connect_success", "connect_error"}
                         THEN "normal" ELSE connect_btn
       /\ template_buttons' = IF m.cb = "connect_success" THEN templates ELSE template_buttons
       /\ host_checkboxes' = IF m.cb = "populate_hosts" THEN hosts ELSE host_checkboxes
       /\ item_checkboxes' = IF m.cb = "items_loaded" /\ m.ok
                             THEN PopulateItems(m.sel, all_items) ELSE item_checkboxes
       /\ common_item_checkboxes' = IF m.cb = "items_loaded" /\ m.ok
                                    THEN PopulateCommon(all_items)
                                    ELSE common_item_checkboxes
       /\ load_items_btn' = IF m.cb = "items_loaded" THEN "normal" ELSE load_items_btn
       /\ download_btn' = IF m.cb = "run_end" THEN "normal" ELSE download_btn
    /\ UNCHANGED <<connected, chart_downloader, templates, hosts, all_items,
                   selected_items, connects, bgVars, pdfVars, calcVars>>

(***************************************************************************)
(* Background threads other than the download                              *)
(***************************************************************************)

\* connect_thread, zabbix_client.connect (gui.py:453, zabbix_client.py:27-108)
conn_login(ok) ==
    /\ conn = "login"
    /\ connected' = ok
    /\ IF ok
       THEN conn' = "chart" /\ UNCHANGED afterQ
       ELSE /\ Room(1)
            /\ afterQ' = Append(afterQ, [cb |-> "connect_error"])
            /\ conn' = "idle"
    /\ UNCHANGED <<chart_downloader, templates, hosts, all_items,
                   template_buttons, host_checkboxes, item_checkboxes,
                   common_item_checkboxes, selected_items, download_btn, connect_btn,
                   load_items_btn, connects,
                   hostsw, itemsw, dl, pdfVars, calcVars>>

\* connect_thread, self.chart_downloader = ChartDownloader(...) (gui.py:456-460);
\* the constructor's web login never raises (chart_downloader.py:24-84)
conn_chart(logged_in) ==
    /\ conn = "chart"
    /\ chart_downloader' = IF logged_in THEN "logged_in" ELSE "not_logged_in"
    /\ conn' = "templates"
    /\ UNCHANGED <<connected, templates, hosts, all_items,
                   template_buttons, host_checkboxes, item_checkboxes,
                   common_item_checkboxes, selected_items, download_btn, connect_btn,
                   load_items_btn, afterQ, connects,
                   hostsw, itemsw, dl, pdfVars, calcVars>>

\* connect_thread, self.templates = get_templates() (gui.py:462-467,
\* zabbix_client.py:122-141)
conn_templates(ok) ==
    /\ conn = "templates"
    /\ Room(1)
    /\ IF connected /\ ok
       THEN /\ templates' = ServerTemplates
            /\ afterQ' = Append(afterQ, [cb |-> "connect_success"])
       ELSE /\ afterQ' = Append(afterQ, [cb |-> "connect_error"])
            /\ UNCHANGED templates
    /\ conn' = "idle"
    /\ UNCHANGED <<connected, chart_downloader, hosts, all_items,
                   template_buttons, host_checkboxes, item_checkboxes,
                   common_item_checkboxes, selected_items, download_btn, connect_btn,
                   load_items_btn, connects,
                   hostsw, itemsw, dl, pdfVars, calcVars>>

\* fetch_hosts (gui.py:526-532, zabbix_client.py:143-166); on failure only a
\* console line is scheduled
fetch_hosts(ok) ==
    /\ hostsw = "fetch"
    /\ IF connected /\ ok
       THEN /\ Room(1)
            /\ hosts' = ServerHosts
            /\ afterQ' = Append(afterQ, [cb |-> "populate_hosts"])
       ELSE UNCHANGED <<hosts, afterQ>>
    /\ hostsw' = "idle"
    /\ UNCHANGED <<connected, chart_downloader, templates, all_items,
                   template_buttons, host_checkboxes, item_checkboxes,
                   common_item_checkboxes, selected_items, download_btn, connect_btn,
                   load_items_btn, connects,
                   conn, itemsw, dl, pdfVars, calcVars>>

\* fetch_all_items, self.all_items.clear() (gui.py:601)
fetch_all_items_clear ==
    /\ itemsw.pc = "clear"
    /\ all_items' = <<>>
    /\ itemsw' = [itemsw EXCEPT !.pc = "fetch"]
    /\ UNCHANGED <<connected, chart_downloader, templates, hosts,
                   template_buttons, host_checkboxes, item_checkboxes,
                   common_item_checkboxes, selected_items, download_btn, connect_btn,
                   load_items_btn, afterQ, connects,
                   conn, hostsw, dl, pdfVars, calcVars>>

\* fetch_all_items, one round of the host loop (gui.py:602-605,
\* zabbix_client.py:168-197) and, after the last host or on an exception, the
\* callbacks of :607-613
fetch_all_items_host(ok) ==
    /\ itemsw.pc = "fetch"
    /\ LET good == connected /\ ok
           last == itemsw.k = Len(itemsw.sel)
       IN  /\ all_items' = IF good THEN DictSet(all_items, itemsw.sel[itemsw.k]) ELSE all_items
           /\ IF good /\ ~last
              THEN /\ itemsw' = [itemsw EXCEPT !.k = @ + 1]
                   /\ UNCHANGED afterQ
              ELSE /\ Room(1)
                   /\ afterQ' = Append(afterQ, [cb |-> "items_loaded", ok |-> good,
                                                sel |-> itemsw.sel])
                   /\ itemsw' = [pc |-> "idle", sel |-> <<>>, k |-> 0]
    /\ UNCHANGED <<connected, chart_downloader, templates, hosts,
                   template_buttons, host_checkboxes, item_checkboxes,
                   common_item_checkboxes, selected_items, download_btn, connect_btn,
                   load_items_btn, connects,
                   conn, hostsw, dl, pdfVars, calcVars>>

(***************************************************************************)
(* download_thread (gui.py:1041-1181)                                      *)
(***************************************************************************)

\* what stays as it is in a step of a download thread that touches none of
\* the application's state
DlOnly == UNCHANGED <<fgVars, conn, hostsw, itemsw, pdfVars, calcVars>>

\* the same for a step that schedules a callback
DlPost == UNCHANGED <<connected, chart_downloader, templates, hosts, all_items,
                      template_buttons, host_checkboxes, item_checkboxes,
                      common_item_checkboxes, selected_items, download_btn,
                      connect_btn, load_items_btn, connects,
                      conn, hostsw, itemsw, pdfVars, calcVars>>

\* the options read at gui.py:1044-1064: the analysis checkbox, the API key
\* (None unless the analysis is on, :1045) and the PDF checkbox
dl_setup(w, gc, key, gp) ==
    /\ dl[w].pc = "setup"
    /\ dl' = [dl EXCEPT ![w] = [@ EXCEPT !.pc = "len", !.gen_conclusion = gc,
                                         !.api_key = gc /\ key, !.gen_pdf = gp]]
    /\ DlOnly

\* total = len(self.selected_items) (gui.py:1078)
dl_len(w) ==
    /\ dl[w].pc = "len"
    /\ dl' = [dl EXCEPT ![w] = [@ EXCEPT !.pc = "iter", !.total = Len(selected_items)]]
    /\ DlOnly

\* the dict iterator the for statement creates (gui.py:1081): it remembers
\* the size of the dict and starts at its first entry
dl_iter(w) ==
    /\ dl[w].pc = "iter"
    /\ dl' = [dl EXCEPT ![w] = [@ EXCEPT !.pc = "next", !.di_used = Len(selected_items),
                                         !.di_pos = 0]]
    /\ DlOnly

\* the entry a dict iterator standing after pos entries yields
DictIterItemBackwards(d, pos) == d[Len(d) - pos]
DictIterItem(d, pos) == d[pos + 1]

\* one step of the for statement (gui.py:1081): the iterator raises
\* RuntimeError when the dict changed size, ends the loop after the last
\* entry (then :1147-1150 log the success/total summary), and otherwise
\* yields the next entry of the dict as it is now
dl_next(w) ==
    /\ dl[w].pc = "next"
    /\ LET me == dl[w] IN
       IF me.di_used # Len(selected_items)
       THEN dl' = [dl EXCEPT ![w] = [@ EXCEPT !.pc = "except", !.cause = "dict_changed_size"]]
       ELSE IF me.di_pos >= Len(selected_items)
       THEN dl' = [dl EXCEPT ![w] = [@ EXCEPT
                      !.pc = IF me.gen_pdf /\ me.entries # <<>> THEN "render" ELSE "notify",
                      !.summary = TRUE]]
       ELSE dl' = [dl EXCEPT ![w] = [@ EXCEPT
                      !.pc = "download_chart",
                      !.cur = DictIterItem(selected_items, me.di_pos),
                      !.di_pos = @ + 1,
                      !.processed = Append(@, DictIterItem(selected_items, me.di_pos)),
                      !.events = <<>>,
                      !.analysis = ""]]
    /\ DlOnly

\* download_chart (gui.py:1089-1091, chart_downloader.py:119-199): image
\* bytes, or None after a failed request
dl_download_chart(w, got) ==
    /\ dl[w].pc = "download_chart"
    /\ dl' = [dl EXCEPT ![w] = [@ EXCEPT
                 !.pc = IF got THEN "process_image" ELSE "progress"]]
    /\ DlOnly

\* where the thread goes after process_image returns (gui.py:1105)
AfterImage(gc, gp) == IF gc \/ gp THEN "analyze" ELSE "progress"

\* process_image (gui.py:1097-1102, chart_downloader.py:201-245). ok: the
\* bytes decode as an image and both files are saved; otherwise
\* Image.open / save raises, and nothing between :1097 and :1173 catches it
dl_process_image(w, ok) ==
    /\ dl[w].pc = "process_image"
    /\ LET me == dl[w] IN
       IF ok
       THEN dl' = [dl EXCEPT ![w] = [@ EXCEPT
                      !.pc = AfterImage(me.gen_conclusion, me.gen_pdf),
                      !.events = @ \o <<"chart_png", "legend_png">>,
                      !.success_count = @ + 1]]
       ELSE dl' = [dl EXCEPT ![w] = [@ EXCEPT !.pc = "except", !.cause = "process_image"]]
    /\ DlOnly

\* `if not self.deepseek_api_key` (trend_analyzer.py:232-234)
NarrativeSkippedNever(key) == FALSE
NarrativeSkipped(key) == ~key

\* what the narrative endpoint can answer a request with:
\*   network_error  no connection           timeout      no answer in 30 s
\*   http_error     an error status         non_json     a body that is not JSON
\*   missing_field  JSON without choices, with an empty choices list, or
\*                  without message / content
\*   wrong_type     JSON with a value of another type on that path (null
\*                  choices, a null content, a list at the top)
\*   blank_text     a content of white space only
\*   text           a content with text
NarrativeResponses ==
    {"network_error", "timeout", "http_error", "non_json", "missing_field",
     "wrong_type", "blank_text", "text"}

\* what get_ai_conclusion does (trend_analyzer.py:222-307): "None", "empty"
\* (the string ''), "text", or "raises". It catches RequestException,
\* KeyError and IndexError (:302-307); response.json() on a body that is not
\* JSON raises a RequestException with requests 2.27 or later and a plain
\* ValueError before, and a value of the wrong type raises TypeError or
\* AttributeError (:297, :300)
get_ai_conclusion(key, resp) ==
    IF NarrativeSkipped(key) THEN {"None"}
    ELSE CASE resp \in {"network_error", "timeout", "http_error"} -> {"None"}
           [] resp = "non_json" -> {"None", "raises"}
           [] resp = "missing_field" -> {"None"}
           [] resp = "wrong_type" -> {"raises"}
           [] resp = "blank_text" -> {"empty"}
           [] resp = "text" -> {"text"}

\* how analyze_item ends after get_ai_conclusion (trend_analyzer.py:394-400)
NarrativeOutcome(r) ==
    CASE r = "raises" -> "narrative_raises"
      [] r = "text" -> "conclusion"
      [] OTHER -> "no_conclusion"

\* `if conclusion:` (trend_analyzer.py:397)
WritesSidecarAlways(outcome) == TRUE
WritesSidecar(outcome) == outcome = "conclusion"

\* what analyze_item does, in order (trend_analyzer.py:375-400), by outcome:
\*   no_trends        get_trends returned [] (also after a failed request, :64-66)
\*   no_conclusion    get_ai_conclusion returned None (no key, or a caught failure)
\*   conclusion       get_ai_conclusion returned a text
\*   narrative_raises get_ai_conclusion raised what it does not catch (:302-307)
AnalyzeEventsStatsLast(outcome, key) ==
    IF outcome = "no_trends" THEN <<"get_trends">>
    ELSE <<"get_trends", "trends_csv">>
         \o (IF key THEN <<"narrative_request">> ELSE <<>>)
         \o (IF outcome = "conclusion" THEN <<"conclusion_txt">> ELSE <<>>)
         \o <<"statistics">>
AnalyzeEvents(outcome, key) ==
    IF outcome = "no_trends" THEN <<"get_trends">>
    ELSE <<"get_trends", "trends_csv", "statistics">>
         \o (IF NarrativeSkipped(key) THEN <<>> ELSE <<"narrative_request">>)
         \o (IF WritesSidecar(outcome) THEN <<"conclusion_txt">> ELSE <<>>)

\* how analyze_item can end (trend_analyzer.py:375-400) with or without a key
AnalyzeOutcomes(key) ==
    {"no_trends"}
    \cup {NarrativeOutcome(r) : r \in UNION {get_ai_conclusion(key, resp) :
                                               resp \in NarrativeResponses}}

\* whether gui.py:1134 adds the item to the report
AddsToReportAlways(gp, outcome) == gp
AddsToReport(gp, outcome) == gp /\ outcome \in {"no_conclusion", "conclusion"}

\* analyze_item and add_item_data inside the try of gui.py:1107-1140
dl_analyze(w, outcome) ==
    /\ dl[w].pc = "analyze"
    /\ LET me == dl[w] IN
       /\ outcome \in AnalyzeOutcomes(me.api_key)
       /\ dl' = [dl EXCEPT ![w] = [@ EXCEPT
                    !.pc = "progress",
                    !.analysis = outcome,
                    !.events = @ \o AnalyzeEvents(outcome, me.api_key),
                    !.entries = IF AddsToReport(me.gen_pdf, outcome)
                                THEN Append(@, Entry(me.cur.host, me.cur.item, TRUE, TRUE,
                                                     outcome = "conclusion"))
                                ELSE @]]
    /\ DlOnly

\* progress = (i + 1) / total and the callback that shows it (gui.py:1144-1145),
\* i + 1 being the number of entries the iterator has yielded; the division
\* raises ZeroDivisionError when total is 0
dl_progress(w) ==
    /\ dl[w].pc = "progress"
    /\ LET me == dl[w] IN
       IF me.total = 0
       THEN /\ dl' = [dl EXCEPT ![w] = [@ EXCEPT !.pc = "except", !.cause = "zero_division"]]
            /\ UNCHANGED afterQ
       ELSE /\ Room(1)
            /\ afterQ' = Append(afterQ, [cb |-> "progress"])
            /\ dl' = [dl EXCEPT ![w] = [@ EXCEPT !.pc = "next"]]
    /\ DlPost

\* where the thread goes when generate_report returned a path, returned ""
\* or raised (gui.py:1156-1163)
AfterRenderAborting(rendered) == IF rendered THEN "notify" ELSE "except"
AfterRender(rendered) == "notify"

\* generate_report (gui.py:1153-1163, pdf_generator.py:496-616)
dl_render(w, build_ok) ==
    /\ dl[w].pc = "render"
    /\ dl' = [dl EXCEPT ![w] = [@ EXCEPT
                 !.pc = AfterRender(~NothingToRender(dl[w].entries) /\ build_ok),
                 !.pdf_ret = IF ~NothingToRender(dl[w].entries) /\ build_ok
                             THEN PdfPath ELSE NoPath]]
    /\ DlOnly

\* the message box a run that reached its summary ends with (gui.py:1165-1171):
\* with a chart saved, showinfo, and in it the line "Informe PDF generado"
\* when there is a report generator with entries; otherwise showwarning.
\* The callback of the model does not carry the text.
NotifyBox(me) ==
    IF me.success_count = 0 THEN "warning"
    ELSE IF me.gen_pdf /\ me.entries # <<>> THEN "info_pdf" ELSE "info"

\* the end of a run that reached its summary (gui.py:1165-1171, :1180-1181);
\* the thread is over
dl_notify(w) ==
    /\ dl[w].pc = "notify"
    /\ Room(1)
    /\ afterQ' = Append(afterQ, [cb |-> "run_end"])
    /\ dl' = [dl EXCEPT ![w] = IdleWorker]
    /\ DlPost

\* the end of a run that raised (gui.py:1173-1181); the thread is over
dl_except(w) ==
    /\ dl[w].pc = "except"
    /\ Room(1)
    /\ afterQ' = Append(afterQ, [cb |-> "run_end"])
    /\ dl' = [dl EXCEPT ![w] = IdleWorker]
    /\ DlPost

(***************************************************************************)
(* Time ranges (chart_downloader.py:86-117, trend_analyzer.py:68-104)      *)
(***************************************************************************)

\* a call that has not been made, one that returned, one that raised
NoCall == [state |-> "none"]
Returned(v) == [state |-> "returned", value |-> v]
Raised(e) == [state |-> "raised", error |-> e]

\* calculate_time_range (chart_downloader.py:86-117)
calculate_time_range(p) ==
    CASE p = "last_30_days" -> Returned(<<"now-30d", "now">>)
      [] p = "previous_month" -> Returned(<<"now-1M/M", "now-1M/M">>)
      [] p = "current_month" -> Returned(<<"now/M", "now">>)
      [] OTHER -> Raised("ValueError")

\* ---- datetime: [year, month, day, second of the day], local time taken
\* ---- without a daylight-saving shift ----
SecondsPerDay == 86400

IsLeap(y) == (y % 4 = 0 /\ y % 100 # 0) \/ y % 400 = 0

DaysInMonth(y, m) ==
    CASE m \in {4, 6, 9, 11} -> 30
      [] m = 2 -> IF IsLeap(y) THEN 29 ELSE 28
      [] OTHER -> 31

\* the days from 1970-01-01 to the first day of year y
DaysBeforeYear(y) ==
    LET Leaps(x) == (x \div 4) - (x \div 100) + (x \div 400)
    IN  365 * (y - 1970) + Leaps(y - 1) - Leaps(1969)

RECURSIVE DaysBeforeMonth(_, _)
DaysBeforeMonth(y, m) ==
    IF m = 1 THEN 0 ELSE DaysBeforeMonth(y, m - 1) + DaysInMonth(y, m - 1)

\* datetime.timestamp(), as whole seconds
Timestamp(dt) ==
    (DaysBeforeYear(dt.year) + DaysBeforeMonth(dt.year, dt.month) + dt.day - 1)
        * SecondsPerDay + dt.second

\* the years the model's dates lie in
CalYears == 2023..2026

\* the datetime of a timestamp
FromTimestamp(ts) ==
    LET d == ts \div SecondsPerDay
        y == CHOOSE yy \in CalYears : DaysBeforeYear(yy) <= d /\ d < DaysBeforeYear(yy + 1)
        dy == d - DaysBeforeYear(y)
        m == CHOOSE mm \in 1..12 :
                /\ DaysBeforeMonth(y, mm) <= dy
                /\ dy < DaysBeforeMonth(y, mm) + DaysInMonth(y, mm)
    IN  [year |-> y, month |-> m, day |-> dy - DaysBeforeMonth(y, m) + 1,
         second |-> ts % SecondsPerDay]

\* dt - timedelta(seconds=n)
MinusSeconds(dt, n) == FromTimestamp(Timestamp(dt) - n)

\* dt.replace(day=1, hour=0, minute=0, second=0, microsecond=0)
ReplaceFirstOfMonth(dt) == [dt EXCEPT !.day = 1, !.second = 0]

\* the end of "now-1M/M" (trend_analyzer.py:81-85)
PreviousMonthEndThirtyDays(n) ==
    LET first_of_current == ReplaceFirstOfMonth(n)
        prev_month == MinusSeconds(first_of_current, SecondsPerDay)
    IN  Timestamp(ReplaceFirstOfMonth(prev_month)) + 30 * SecondsPerDay - 1
PreviousMonthEnd(n) ==
    LET first_of_current == ReplaceFirstOfMonth(n)
        last_of_prev == MinusSeconds(first_of_current, 1)
    IN  Timestamp(last_of_prev)

\* the start of "now-1M/M" (trend_analyzer.py:81, :87-90)
PreviousMonthStart(n) ==
    LET first_of_current == ReplaceFirstOfMonth(n)
        prev_month == MinusSeconds(first_of_current, SecondsPerDay)
        first_of_prev == ReplaceFirstOfMonth(prev_month)
    IN  Timestamp(first_of_prev)

\* the strings of the model that int() takes for a number, with the number
IntLiterals == [t \in {"1704067200"} |-> 1704067200]

\* int(t) (trend_analyzer.py:97): the number of a literal, ValueError for
\* any other string
ParseIntZero(t) ==
    IF t \in DOMAIN IntLiterals THEN Returned(IntLiterals[t]) ELSE Returned(0)
ParseInt(t) ==
    IF t \in DOMAIN IntLiterals THEN Returned(IntLiterals[t]) ELSE Raised("ValueError")

\* parse_time (trend_analyzer.py:74-97)
parse_time(t, is_to, n) ==
    CASE t = "now" -> Returned(Timestamp(n))
      [] t = "now-30d" -> Returned(Timestamp(n) - 30 * 24 * 3600)
      [] t = "now-1M/M" ->
            Returned(IF is_to THEN PreviousMonthEnd(n) ELSE PreviousMonthStart(n))
      [] t = "now/M" -> Returned(Timestamp(ReplaceFirstOfMonth(n)))
      [] OTHER -> ParseInt(t)

\* _convert_time_range (trend_analyzer.py:68-104)
_convert_time_range(time_from, time_to, n) ==
    LET from_ts == parse_time(time_from, FALSE, n)
        to_ts == parse_time(time_to, TRUE, n)
    IN  IF from_ts.state = "raised" THEN from_ts
        ELSE IF to_ts.state = "raised" THEN to_ts
        ELSE Returned(<<from_ts.value, to_ts.value>>)

(***************************************************************************)
(* Statistics of a trend series (trend_analyzer.py:145-199)                *)
(*                                                                         *)
(* A trend point is [clock, value_min, value_avg, value_max], its numbers   *)
(* already parsed (pd.to_numeric) and counted in thousandths; the summary's *)
(* numbers are in hundredths, which is what round(x, 2) keeps.              *)
(*                                                                         *)
(* The numbers of the program are doubles.  A value read from the series    *)
(* that lies half way between two hundredths is rounded to the even one     *)
(* (numpy's round scales by 100 and rounds half to even).  A number that    *)
(* was computed (a mean of several values, an interpolation) is the double  *)
(* nearest to an inexact result: when the exact result lies half way, the   *)
(* double lies on either side of it, and `up` says on which.                *)
(***************************************************************************)

RECURSIVE SumSeq(_)
SumSeq(xs) == IF xs = <<>> THEN 0 ELSE Head(xs) + SumSeq(Tail(xs))

Column(t, field) == [i \in 1..Len(t) |-> t[i][field]]

SeqMax(xs) == CHOOSE x \in Range(xs) : \A y \in Range(xs) : y <= x
SeqMin(xs) == CHOOSE x \in Range(xs) : \A y \in Range(xs) : x <= y

\* xs in ascending order
RECURSIVE SortAsc(_)
SortAsc(xs) ==
    IF xs = <<>> THEN <<>>
    ELSE LET i == CHOOSE k \in 1..Len(xs) : \A j \in 1..Len(xs) : xs[k] <= xs[j]
         IN  <<xs[i]>> \o SortAsc(SubSeq(xs, 1, i - 1) \o SubSeq(xs, i + 1, Len(xs)))

\* round(x, 2) in hundredths of x = num / den thousandths, num >= 0 and
\* den > 0; half way between two hundredths it goes up if `up`
Round2(num, den, up) ==
    LET q == num \div (10 * den)
        r == num % (10 * den)
    IN  IF 2 * r < 10 * den THEN q
        ELSE IF 2 * r > 10 * den THEN q + 1
        ELSE IF up THEN q + 1 ELSE q

\* round(x, 2) of a value of the series: half to even
RoundValue(v) == Round2(v, 1, (v \div 10) % 2 = 1)

\* round(Series.mean(), 2): the sum of one value, or of the same value twice
\* or four times, and its quotient are exact, so the mean is that value
RoundMean(xs, up) ==
    IF Len(xs) \in {1, 2, 4} /\ \A i \in 1..Len(xs) : xs[i] = xs[1]
    THEN RoundValue(xs[1])
    ELSE Round2(SumSeq(xs), Len(xs), up)

\* round(Series.quantile(pct / 100), 2) in hundredths: linear interpolation
\* between the two neighbours of position (n - 1) * pct / 100
Quantile(xs, pct, up) ==
    LET sorted == SortAsc(xs)
        pos == (Len(xs) - 1) * pct
        i == pos \div 100 + 1
        frac == pos % 100
    IN  IF frac = 0 \/ sorted[i + 1] = sorted[i] THEN RoundValue(sorted[i])
        ELSE Round2(100 * sorted[i] + frac * (sorted[i + 1] - sorted[i]), 100, up)

\* round(Series.std(), 2) in hundredths: the sample deviation (ddof = 1),
\* NaN for a single point
StdDeviation(xs) ==
    LET n == Len(xs)
        sq == [i \in 1..n |-> xs[i] * xs[i]]
        num == n * SumSeq(sq) - SumSeq(xs) * SumSeq(xs)
        den == n * (n - 1)
    IN  IF n = 1 THEN "nan"
        ELSE CHOOSE k \in 0..(SeqMax(xs) \div 10 + 1) :
                /\ (10 * k - 5) * (10 * k - 5) * den <= num \/ k = 0
                /\ num < (10 * k + 5) * (10 * k + 5) * den

\* df['datetime'].dt.hour
HourOf(clock) == (clock \div 3600) % 24

\* df['datetime'].dt.day_name(); 1970-01-01 was a Thursday
WeekdayNames ==
    <<"Monday", "Tuesday", "Wednesday", "Thursday", "Friday", "Saturday", "Sunday">>
DayNameOf(clock) == WeekdayNames[(((clock \div SecondsPerDay) + 3) % 7) + 1]

\* the group keys in the order groupby leaves them in: sorted
HourOrder == [i \in 1..24 |-> i - 1]
DayNameOrder ==
    <<"Friday", "Monday", "Saturday", "Sunday", "Thursday", "Tuesday", "Wednesday">>

\* the columns df['hour'] and df['day_name'] of a row
KeyOf(column, clock) == IF column = "hour" THEN HourOf(clock) ELSE DayNameOf(clock)

\* df.groupby(column)['value_avg'].mean(): per group <<sum, count>>, and the
\* groups that exist, in order
GroupMean(t, column, k) ==
    LET rows == {i \in 1..Len(t) : KeyOf(column, t[i].clock) = k}
        vals == [i \in 1..Len(t) |-> IF i \in rows THEN t[i].value_avg ELSE 0]
    IN  <<SumSeq(vals), Cardinality(rows)>>

GroupKeys(t, column) ==
    LET Present(k) == \E i \in 1..Len(t) : KeyOf(column, t[i].clock) = k
    IN  SelectSeq(IF column = "hour" THEN HourOrder ELSE DayNameOrder, Present)

\* mean a > mean b
MeanGreaterReversed(a, b) == b[1] * a[2] > a[1] * b[2]
MeanGreater(a, b) == a[1] * b[2] > b[1] * a[2]

\* Series.nlargest(n).index.tolist(): the n largest, largest first, equal
\* values in the order of the series
RECURSIVE NLargest(_, _, _, _, _)
NLargest(t, column, keys, n, taken) ==
    IF n = 0 \/ Len(keys) = Len(taken) THEN taken
    ELSE LET left == {i \in 1..Len(keys) : keys[i] \notin Range(taken)}
             Best(i) == \A j \in left :
                 /\ ~MeanGreater(GroupMean(t, column, keys[j]), GroupMean(t, column, keys[i]))
                 /\ (j < i => MeanGreater(GroupMean(t, column, keys[i]),
                                          GroupMean(t, column, keys[j])))
             i == CHOOSE k \in left : Best(k)
         IN  NLargest(t, column, keys, n - 1, Append(taken, keys[i]))

\* f"{h:02d}:00"
HourLabel(h) == <<h \div 10, h % 10, ":", 0, 0>>

\* strftime('%Y-%m-%d')
DateLabel(clock) ==
    LET dt == FromTimestamp(clock) IN <<dt.year, "-", dt.month, "-", dt.day>>

\* the summary of a series with points (trend_analyzer.py:158-197)
Summary(t, up) ==
    LET avg == Column(t, "value_avg")
        peak_hours == NLargest(t, "hour", GroupKeys(t, "hour"), 3, <<>>)
        peak_days == NLargest(t, "day_name", GroupKeys(t, "day_name"), 3, <<>>)
    IN  [total_data_points |-> Len(t),
         avg_monthly |-> RoundMean(avg, up),
         max_absolute |-> RoundValue(SeqMax(Column(t, "value_max"))),
         min_absolute |-> RoundValue(SeqMin(Column(t, "value_min"))),
         p95 |-> Quantile(avg, 95, up),
         p99 |-> Quantile(avg, 99, up),
         std_deviation |-> StdDeviation(avg),
         peak_hours |-> [i \in 1..Len(peak_hours) |-> HourLabel(peak_hours[i])],
         peak_days |-> peak_days,
         period_start |-> DateLabel(SeqMin(Column(t, "clock"))),
         period_end |-> DateLabel(SeqMax(Column(t, "clock")))]

\* calculate_statistics (trend_analyzer.py:145-199)
calculate_statisticsZeros(t, up) ==
    IF t = <<>>
    THEN [total_data_points |-> 0, avg_monthly |-> 0, max_absolute |-> 0,
          min_absolute |-> 0, p95 |-> 0, p99 |-> 0, std_deviation |-> 0,
          peak_hours |-> <<>>, peak_days |-> <<>>,
          period_start |-> <<>>, period_end |-> <<>>]
    ELSE Summary(t, up)
calculate_statistics(t, up) ==
    IF t = <<>> THEN EmptyDict ELSE Summary(t, up)

(***************************************************************************)
(* The application                                                         *)
(***************************************************************************)

\* the non-empty subsequences of a sequence, in its order
SubSeqs(s) ==
    {SelectSeq(s, LAMBDA x : x \in c) : c \in (SUBSET Range(s)) \ {{}}}

OnConnect == _on_connect
OnTemplateSelected == \E t \in Range(template_buttons) : _on_template_selected(t)
OnLoadItems == \E sel \in SubSeqs(host_checkboxes) : _load_items_for_selected_hosts(sel)
OnAddSelected == \E chk \in SUBSET Range(item_checkboxes) : _add_selected_items(chk)
OnAddCommon ==
    \E names \in SUBSET Range(common_item_checkboxes) : _add_common_items_to_all_hosts(names)
OnClearSelection == _clear_selection
OnDownload == _on_download

ConnLogin == \E ok \in BOOLEAN : conn_login(ok)
ConnChart == \E logged_in \in BOOLEAN : conn_chart(logged_in)
ConnTemplates == \E ok \in BOOLEAN : conn_templates(ok)
FetchHosts == \E ok \in BOOLEAN : fetch_hosts(ok)
FetchItemsClear == fetch_all_items_clear
FetchItemsHost == \E ok \in BOOLEAN : fetch_all_items_host(ok)

DlSetup == \E w \in Workers, gc \in BOOLEAN, key \in BOOLEAN, gp \in BOOLEAN : dl_setup(w, gc, key, gp)
DlLen == \E w \in Workers : dl_len(w)
DlIter == \E w \in Workers : dl_iter(w)
DlNext == \E w \in Workers : dl_next(w)
DlDownloadChart == \E w \in Workers, got \in BOOLEAN : dl_download_chart(w, got)
DlProcessImage == \E w \in Workers, ok \in BOOLEAN : dl_process_image(w, ok)
DlAnalyze ==
    \E w \in Workers, outcome \in AnalyzeOutcomes(TRUE) : dl_analyze(w, outcome)
DlProgress == \E w \in Workers : dl_progress(w)
DlRender == \E w \in Workers, build_ok \in BOOLEAN : dl_render(w, build_ok)
DlNotify == \E w \in Workers : dl_notify(w)
DlExcept == \E w \in Workers : dl_except(w)

\* the steps that connect and load the inventory
SessionNext ==
    \/ OnConnect
    \/ OnTemplateSelected
    \/ OnLoadItems
    \/ RunCallback
    \/ ConnLogin
    \/ ConnChart
    \/ ConnTemplates
    \/ FetchHosts
    \/ FetchItemsClear
    \/ FetchItemsHost

\* the steps of the download queue and of the download runs
RunNext ==
    \/ OnAddSelected
    \/ OnAddCommon
    \/ OnClearSelection
    \/ OnDownload
    \/ RunCallback
    \/ DlSetup
    \/ DlLen
    \/ DlIter
    \/ DlNext
    \/ DlDownloadChart
    \/ DlProcessImage
    \/ DlAnalyze
    \/ DlProgress
    \/ DlRender
    \/ DlNotify
    \/ DlExcept

\* no time range resolved and no statistics computed yet
CalcState ==
    /\ period_type = ""
    /\ time_range = NoCall
    /\ now = NoCall
    /\ timestamps = NoCall
    /\ trends = <<>>
    /\ stats = NoCall
    /\ named_items = <<>>
    /\ artifact_paths = NoCall

\* the application after construction
Init == GuiState /\ PdfState /\ CalcState

\* the hosts ticked when the items were loaded
LoadedHosts == <<"h1">>

\* the session once the operator has connected, picked the template, ticked
\* the hosts LoadedHosts and loaded their items: a state that Spec reaches
LoadedSession ==
    /\ connected = TRUE
    /\ chart_downloader = "logged_in"
    /\ templates = ServerTemplates
    /\ template_buttons = ServerTemplates
    /\ hosts = ServerHosts
    /\ host_checkboxes = ServerHosts
    /\ all_items = LoadedHosts
    /\ item_checkboxes = PopulateItems(LoadedHosts, LoadedHosts)
    /\ common_item_checkboxes = PopulateCommon(LoadedHosts)
    /\ selected_items = <<>>
    /\ download_btn = "disabled"
    /\ connect_btn = "normal"
    /\ load_items_btn = "normal"
    /\ afterQ = <<>>
    /\ connects = 1
    /\ conn = "idle"
    /\ hostsw = "idle"
    /\ itemsw = [pc |-> "idle", sel |-> <<>>, k |-> 0]
    /\ dl = [w \in Workers |-> IdleWorker]

RunInit == LoadedSession /\ PdfState /\ CalcState

\* connecting and loading the inventory, from construction
Spec == Init /\ [][SessionNext]_vars

\* the download queue and the download runs on a loaded session
SpecRun == RunInit /\ [][RunNext]_vars

\* the steps of a loaded session in which the operator queues items, connects
\* again and downloads
ReconnectNext ==
    \/ OnConnect
    \/ ConnLogin
    \/ ConnChart
    \/ ConnTemplates
    \/ OnAddSelected
    \/ OnDownload
    \/ RunCallback
    \/ DlSetup
    \/ DlLen
    \/ DlIter
    \/ DlNext
    \/ DlDownloadChart
    \/ DlProcessImage
    \/ DlAnalyze
    \/ DlProgress
    \/ DlRender
    \/ DlNotify
    \/ DlExcept

\* connecting again and downloading on a loaded session
SpecReconnect == RunInit /\ [][ReconnectNext]_vars

(***************************************************************************)
(* One PDFReportGenerator on its own                                       *)
(***************************************************************************)

\* the application's only caller (gui.py:1134-1137) adds an entry only when its
\* trend list is non-empty, and then its statistics are non-empty too
PdfAdd ==
    /\ \E h \in Hosts, c \in BOOLEAN : \E i \in Range(ServerItems(h)) :
          add_item_data(h, i, TRUE, TRUE, c)
    /\ UNCHANGED <<guiVars, calcVars>>

\* the entries whose chart cannot be drawn in one rendering: none of them,
\* one of them, or all of them
ChartFailures(data) ==
    {{}} \cup {{k} : k \in 1..Len(data)} \cup {1..Len(data)}

PdfRender ==
    /\ \E chart_fails \in ChartFailures(items_data), build_ok \in BOOLEAN,
          left_file \in BOOLEAN :
          /\ (build_ok => ~left_file)
          /\ generate_report(chart_fails, build_ok, left_file)
    /\ UNCHANGED <<guiVars, calcVars>>

PdfClear == clear_data /\ UNCHANGED <<guiVars, calcVars>>

PdfNext == PdfAdd \/ PdfRender \/ PdfClear

PdfInit == PdfState /\ GuiState /\ CalcState

SpecPdf == PdfInit /\ [][PdfNext]_vars

(***************************************************************************)
(* One PDFReportGenerator and its configuration                            *)
(***************************************************************************)

\* a text an operator typed into the field `key` (of host h, for the per-host
\* fields), with white space around it
Filled(h, key) == <<" ", h, key, " ">>

\* self.report_config as the window creates it (gui.py:343-352)
GuiBlankConfig == [k \in Range(UptimeKeys) \cup Range(DimKeys) |-> <<>>]

\* report configs with the uptime fields in U filled and the others holding
\* white space only
UptimeConfig(U) ==
    [k \in Range(UptimeKeys) |-> IF k \in U THEN Filled("", k) ELSE <<" ">>]

\* report configs with the dimension fields in D filled and the others empty
DimConfig(D) ==
    [k \in Range(DimKeys) |-> IF k \in D THEN Filled("", k) ELSE <<>>]

ReportConfigs ==
    {EmptyDict, GuiBlankConfig}
    \cup {UptimeConfig(U) : U \in SUBSET Range(UptimeKeys)}
    \cup {DimConfig(D) : D \in {E \in SUBSET Range(DimKeys) : Cardinality(E) \in {1, Len(DimKeys)}}}

\* the entry _save_current_host_config stores for a host (gui.py:1002-1009),
\* with the fields in F filled and the others holding white space only
HostEntry(h, F) ==
    [k \in Range(OperativeKeys) |-> IF k \in F THEN Filled(h, k) ELSE <<" ">>]

OperativeFills ==
    {F \in SUBSET Range(OperativeKeys) : Cardinality(F) \in {0, 1, Len(OperativeKeys)}}

\* host_configs dicts: an entry for some of the hosts, none for the others
HostConfigSets ==
    UNION { { [h \in H |-> HostEntry(h, f[h])] : f \in [H -> OperativeFills] }
            : H \in SUBSET Hosts }

CfgSetReport ==
    /\ \E config \in ReportConfigs : set_report_config(config)
    /\ UNCHANGED <<guiVars, calcVars>>

CfgSetHosts ==
    /\ \E configs \in HostConfigSets : set_host_configs(configs)
    /\ UNCHANGED <<guiVars, calcVars>>

\* one entry per host, as a run over one item of each host adds them
CfgAdd ==
    /\ \E h \in Hosts :
          /\ \A k \in 1..Len(items_data) : items_data[k].host # h
          /\ add_item_data(h, "cpu", TRUE, TRUE, FALSE)
    /\ UNCHANGED <<guiVars, calcVars>>

CfgRender ==
    /\ \E build_ok \in BOOLEAN : generate_report({}, build_ok, FALSE)
    /\ UNCHANGED <<guiVars, calcVars>>

CfgNext == CfgSetReport \/ CfgSetHosts \/ CfgAdd \/ CfgRender

SpecCfg == PdfInit /\ [][CfgNext]_vars

(***************************************************************************)
(* One resolution of a time range                                          *)
(***************************************************************************)

\* the periods of the window's selector (gui.py:1039, :1066) and one that is
\* none of them
PeriodTypes == {"last_30_days", "previous_month", "current_month", "last_7_days"}

\* the moments the range is resolved at: every second-of-day in DayTimes of
\* every day of the years NowYears
NowYears == {2024, 2025}
DayTimes == {0, 43200, 86399}

Nows ==
    {[year |-> y, month |-> m, day |-> d, second |-> t] :
        y \in NowYears, m \in 1..12, d \in 1..31, t \in DayTimes}

\* the strings a caller of get_trends hands in: the relative expressions,
\* one of another period, a period's name, and a timestamp
TimeExprs == {"now", "now-30d", "now-1M/M", "now/M", "now-7d", "last_30_days", "1704067200"}

\* a pair of strings a caller holds that calculate_time_range did not make
Given(v) == [state |-> "given", value |-> v]

\* at first the period is one of the selector's or, for a caller of the
\* analyzer alone, none
TimeInit ==
    /\ period_type \in PeriodTypes \union {""}
    /\ now \in {n \in Nows : n.day <= DaysInMonth(n.year, n.month)}
    /\ time_range = NoCall
    /\ timestamps = NoCall
    /\ trends = <<>>
    /\ stats = NoCall
    /\ named_items = <<>>
    /\ artifact_paths = NoCall
    /\ PdfState
    /\ GuiState

\* time_from, time_to = ChartDownloader.calculate_time_range(period_type)
\* (gui.py:1066)
CalculateTimeRange ==
    /\ time_range = NoCall
    /\ time_range' = calculate_time_range(period_type)
    /\ UNCHANGED <<period_type, now, timestamps, trends, stats,
                   named_items, artifact_paths, pdfVars, guiVars>>

\* from_ts, to_ts = self._convert_time_range(time_from, time_to)
\* (trend_analyzer.py:49)
ConvertTimeRange ==
    /\ time_range.state \in {"returned", "given"}
    /\ timestamps = NoCall
    /\ timestamps' = _convert_time_range(time_range.value[1], time_range.value[2], now)
    /\ UNCHANGED <<period_type, now, time_range, trends, stats,
                   named_items, artifact_paths, pdfVars, guiVars>>

\* a caller of get_trends(item_id, time_from, time_to) (trend_analyzer.py:36)
\* with strings of its own
GivenTimeRange ==
    /\ period_type = ""
    /\ time_range = NoCall
    /\ \E time_from \in TimeExprs, time_to \in TimeExprs :
          time_range' = Given(<<time_from, time_to>>)
    /\ UNCHANGED <<period_type, now, timestamps, trends, stats,
                   named_items, artifact_paths, pdfVars, guiVars>>

TimeNext == CalculateTimeRange \/ GivenTimeRange \/ ConvertTimeRange

SpecTime == TimeInit /\ [][TimeNext]_vars

(***************************************************************************)
(* One summary of a trend series                                           *)
(***************************************************************************)

\* the hours the points are of: Monday 2024-01-01 00:00 and 01:00 and
\* Friday 2024-01-05 00:00 (UTC)
Clocks == {1704067200, 1704070800, 1704412800}

\* the values of a point, in thousandths: 0.045 and 0.080
Values == {45, 80}

\* trend.get gives min <= avg <= max for each hour
Points ==
    {pt \in [clock : Clocks, value_min : Values, value_avg : Values, value_max : Values] :
        pt.value_min <= pt.value_avg /\ pt.value_avg <= pt.value_max}

Series == UNION {[1..n -> Points] : n \in 0..MaxSeries}

\* series of more hours: Monday 2024-01-01 00:00 to 03:00, one number an
\* hour (min = avg = max), in the order of the clock
PeakClocks == {1704067200, 1704070800, 1704074400, 1704078000}
PeakValues == {10, 45, 80}

PeakPoints ==
    {[clock |-> c, value_min |-> v, value_avg |-> v, value_max |-> v] :
        c \in PeakClocks, v \in PeakValues}

PeakSeries ==
    UNION {{t \in [1..n -> PeakPoints] :
                \A i \in 1..(n - 1) : t[i].clock <= t[i + 1].clock} :
             n \in 1..MaxPeakSeries}

StatsInit ==
    /\ period_type = ""
    /\ now = NoCall
    /\ time_range = NoCall
    /\ timestamps = NoCall
    /\ trends \in Series \union PeakSeries
    /\ stats = NoCall
    /\ named_items = <<>>
    /\ artifact_paths = NoCall
    /\ PdfState
    /\ GuiState

\* stats = self.calculate_statistics(trends)
CalculateStatistics ==
    /\ stats = NoCall
    /\ \E up \in BOOLEAN : stats' = Returned(calculate_statistics(trends, up))
    /\ UNCHANGED <<period_type, now, time_range, timestamps, trends,
                   named_items, artifact_paths, pdfVars, guiVars>>

StatsNext == CalculateStatistics

SpecStats == StatsInit /\ [][StatsNext]_vars

(***************************************************************************)
(* The output files of two items of one run                                *)
(***************************************************************************)

\* a name is the sequence of its characters
\* the characters re.sub(r'[<>:"/\\|?*]', '_', name) replaces
\* (chart_downloader.py:283)
InvalidChars == {"<", ">", ":", "\"", "/", "\\", "|", "?", "*"}

\* the characters \s matches (chart_downloader.py:285)
SpaceChars == {" ", "\t"}

\* the length save_csv and save_conclusion_txt cut the name at
\* (trend_analyzer.py:125, :328)
CsvNameLimit == 50

\* the length _sanitize_filename cuts the name at (chart_downloader.py:288)
ImageNameLimit == 100

\* str.replace(c, "_") for every c of chars
ReplaceChars(name, chars) ==
    [i \in 1..Len(name) |-> IF name[i] \in chars THEN "_" ELSE name[i]]

\* re.sub(r'[chars]+', '_', name): every run of chars becomes one underscore
RECURSIVE SubRuns(_, _)
SubRuns(name, chars) ==
    IF name = <<>> THEN <<>>
    ELSE IF Head(name) \in chars
         THEN IF Len(name) > 1 /\ name[2] \in chars
              THEN SubRuns(Tail(name), chars)
              ELSE <<"_">> \o SubRuns(Tail(name), chars)
         ELSE <<Head(name)>> \o SubRuns(Tail(name), chars)

\* name[:n]
Truncate(name, n) == SubSeq(name, 1, IF Len(name) < n THEN Len(name) ELSE n)

\* name.strip('_')
RECURSIVE StripUnderscores(_)
StripUnderscores(name) ==
    IF name = <<>> THEN <<>>
    ELSE IF Head(name) = "_" THEN StripUnderscores(Tail(name))
    ELSE IF name[Len(name)] = "_" THEN StripUnderscores(SubSeq(name, 1, Len(name) - 1))
    ELSE name

\* ChartDownloader._sanitize_filename (chart_downloader.py:271-288)
_sanitize_filename(name) ==
    StripUnderscores(
        Truncate(SubRuns(SubRuns(ReplaceChars(name, InvalidChars), SpaceChars), {"_"}),
                 ImageNameLimit))

\* f"{host_name}_{item_name}" (gui.py:1096, trend_analyzer.py:125, :328)
HostItemName(host_name, item_name) == host_name \o <<"_">> \o item_name

\* safe_name of save_csv and save_conclusion_txt (trend_analyzer.py:125, :328)
CsvSafeName(host_name, item_name) ==
    Truncate(ReplaceChars(HostItemName(host_name, item_name), {" ", "/"}), CsvNameLimit)

\* the paths of the files a run writes for one item below its output
\* directory: chart and legend image (chart_downloader.py:233-237), trend CSV
\* (trend_analyzer.py:125-126) and narrative text (trend_analyzer.py:328-329).
\* The fixed ending of a path is its last element.
ArtifactPaths(it) ==
    { Append(_sanitize_filename(HostItemName(it.host, it.item)), "_grafico_superior.png"),
      Append(_sanitize_filename(HostItemName(it.host, it.item)), "_datos_leyenda.png"),
      Append(CsvSafeName(it.host, it.item), "_trends.csv"),
      Append(CsvSafeName(it.host, it.item), "_conclusion.txt") }

\* the names of an interface longer than the cut of save_csv
LongName == [i \in 1..CsvNameLimit |-> "e"]

\* the host names and the item names of the inventory
HostNames == {<<"h">>, <<"h", "_", "a">>}
PathItemNames ==
    { <<"a">>, <<"b">>, <<"a", "_", "a">>, <<"a", " ", "a">>, <<"a", "/", "a">>,
      <<"a", ":", "a">>, <<"a", " ", " ", "a">>,
      LongName \o <<"i", "n">>, LongName \o <<"o", "u", "t">> }

\* the items of the inventory by their names
NamedItems == [host : HostNames, item : PathItemNames]

\* two distinct items are queued
PathsInit ==
    /\ named_items \in {q \in [1..2 -> NamedItems] : q[1] # q[2]}
    /\ artifact_paths = NoCall
    /\ period_type = ""
    /\ now = NoCall
    /\ time_range = NoCall
    /\ timestamps = NoCall
    /\ trends = <<>>
    /\ stats = NoCall
    /\ PdfState
    /\ GuiState

\* the run writes the files of both items
WriteArtifacts ==
    /\ artifact_paths = NoCall
    /\ artifact_paths' = Returned([k \in 1..2 |-> ArtifactPaths(named_items[k])])
    /\ UNCHANGED <<named_items, period_type, now, time_range, timestamps, trends,
                   stats, pdfVars, guiVars>>

PathsNext == WriteArtifacts

SpecPaths == PathsInit /\ [][PathsNext]_vars

(***************************************************************************)
(* Claims about the download runs, checked under SpecRun, and about the    *)
(* threads of the session, checked under Spec.                             *)
(***************************************************************************)

\* the conditions under which a click on the download button starts a
\* thread (gui.py:1026-1036, :1183)
CanStartDownload ==
    /\ download_btn = "normal"
    /\ selected_items # <<>>
    /\ chart_downloader # "None"

\* C1: from the moment _on_download starts a thread until that thread is
\* over the download control stays disabled, so that no click can start a
\* second thread while one runs.
CE_C1 == \A w \in Workers : Running(w) => (download_btn = "disabled" /\ ~CanStartDownload)

\* C2: a failure of one item's chart fetch, image processing, trend
\* retrieval or narrative step never ends the run: no run is in its
\* exception handler, its summary unwritten, because of one item's failure.
CE_C2 ==
    \A w \in Workers :
        dl[w].pc = "except" => (dl[w].cause # "process_image" \/ dl[w].summary)

\* the application's session handle, inventory and selection
SharedState == <<chart_downloader, templates, hosts, all_items, selected_items>>

\* a step of the foreground thread: a handler or a scheduled callback
ForegroundStep ==
    \/ OnConnect
    \/ OnTemplateSelected
    \/ OnLoadItems
    \/ OnAddSelected
    \/ OnAddCommon
    \/ OnClearSelection
    \/ OnDownload
    \/ RunCallback

\* C3: the session, the inventory and the selection change only in steps of
\* the foreground thread; no step of a background thread writes them.
CE_C3 == [][SharedState' # SharedState => ForegroundStep]_vars

\* C4: with the analysis or the PDF enabled, an item whose chart bitmap
\* could not be fetched has still been analysed when the run is done with it.
CE_C4 ==
    \A w \in Workers :
        ( /\ dl[w].pc = "progress"
          /\ dl[w].gen_conclusion \/ dl[w].gen_pdf
          /\ "chart_png" \notin Range(dl[w].events) )
        => "get_trends" \in Range(dl[w].events)

\* the (host, item) pairs of the entries handed to the report aggregator
EntryItems(es) == [k \in 1..Len(es) |-> UID(es[k].host, es[k].item)]

\* C5: within a run the items are taken one at a time and in queue order:
\* an item is taken only when the run is done with the one before, and the
\* k-th item taken is the k-th entry of the queue; an entry is handed to the
\* report aggregator only for the item being processed, so the entries are
\* in the order the items were taken.
Thm_C5 ==
    /\ [](\A w \in Workers :
            /\ IsSubSeq(EntryItems(dl[w].entries), dl[w].processed)
            /\ dl[w].pc \in {"download_chart", "process_image", "analyze", "progress"}
                  => (dl[w].processed # <<>>
                      /\ dl[w].cur = dl[w].processed[Len(dl[w].processed)]))
    /\ [][\A w \in Workers :
            /\ (dl[w].processed' # dl[w].processed /\ dl[w].pc' # "idle") =>
                  /\ dl[w].pc = "next"
                  /\ Len(dl[w].processed') <= Len(selected_items)
                  /\ dl[w].processed' = Append(dl[w].processed,
                                               selected_items[Len(dl[w].processed')])
            /\ (dl[w].entries' # dl[w].entries /\ dl[w].pc' # "idle") =>
                  /\ Len(dl[w].entries') = Len(dl[w].entries) + 1
                  /\ SubSeq(dl[w].entries', 1, Len(dl[w].entries)) = dl[w].entries
                  /\ EntryItems(dl[w].entries')[Len(dl[w].entries')] = dl[w].cur
       ]_vars

\* two items queued against checkbox order, both taken and both reported
Wit_C5 ==
    \E w \in Workers :
        /\ selected_items = <<UID("h1", "mem"), UID("h1", "cpu")>>
        /\ dl[w].processed = selected_items
        /\ EntryItems(dl[w].entries) = selected_items

\* the events that write an output file of the item
FileEvents == {"chart_png", "legend_png", "trends_csv", "conclusion_txt"}

\* whether the statistics were computed before the k-th event
StatsBefore(ev, k) == \E j \in 1..(k-1) : ev[j] = "statistics"

\* C6 as stated: no output file of an item is written before its statistics
\* have been computed.
CE_C6 ==
    \A w \in Workers : \A k \in 1..Len(dl[w].events) :
        dl[w].events[k] \in FileEvents => StatsBefore(dl[w].events, k)

\* C6 amended: of an item's output files only the narrative sidecar waits
\* for the statistics: it is written after they have been computed, while
\* the chart image, the legend image and the trend CSV are written before.
Thm_C6 ==
    \A w \in Workers : \A k \in 1..Len(dl[w].events) :
        /\ dl[w].events[k] = "conclusion_txt" => StatsBefore(dl[w].events, k)
        /\ dl[w].events[k] \in {"chart_png", "legend_png", "trends_csv"}
              => ~StatsBefore(dl[w].events, k)

Wit_C6 ==
    \E w \in Workers :
        /\ "conclusion_txt" \in Range(dl[w].events)
        /\ "chart_png" \in Range(dl[w].events)

(***************************************************************************)
(* Claims about the report aggregator, checked under SpecPdf.              *)
(***************************************************************************)

\* positions of the story holding a flowable of the given kind
KindPositions(st, kind) == {p \in 1..Len(st) : st[p].kind = kind}

\* the host section a story position lies in: the host of the last header at
\* or before it ("" before the first header)
SectionHostAt(st, p) ==
    LET hs == {q \in KindPositions(st, "HostHeader") : q <= p}
    IN  IF hs = {} THEN ""
        ELSE st[CHOOSE q \in hs : \A r \in hs : r <= q].host

\* the index of the first entry of host h
FirstSeen(data, h) ==
    CHOOSE k \in 1..Len(data) :
        /\ data[k].host = h
        /\ \A j \in 1..(k-1) : data[j].host # h

\* C7: generate_report on an aggregator holding no entry returns the empty
\* path, hands nothing to the PDF builder and leaves no file behind.
Thm_C7 ==
    [][ (last_op' = "render" /\ items_data = <<>>)
            => (ret' = NoPath /\ ~wrote_file' /\ story' = <<>> /\ items_data' = <<>>) ]_vars

Wit_C7 == last_op = "render" /\ items_data = <<>> /\ ret = NoPath /\ ~wrote_file

\* C8 as stated: after a successful render the entry list is empty.
CE_C8 == (last_op = "render" /\ ret = PdfPath) => items_data = <<>>

\* C8 amended: the entry list is append-only and rendering does not consume
\* it: every generate_report, successful or not, leaves the list as it was,
\* add_item_data appends exactly one entry, and only clear_data empties it.
Thm_C8 ==
    [][ /\ (last_op' = "render" => items_data' = items_data)
        /\ (last_op' = "add" =>
                /\ Len(items_data') = Len(items_data) + 1
                /\ SubSeq(items_data', 1, Len(items_data)) = items_data)
        /\ (Len(items_data') < Len(items_data) =>
                (last_op' = "clear" /\ items_data' = <<>>)) ]_vars

Wit_C8 == last_op = "render" /\ ret = PdfPath /\ Len(items_data) >= 2

\* C9: the rendered story holds one section per distinct host, in first-seen
\* host order; every added entry appears exactly once, inside the section of
\* its own host, and the entries of one section are in add order.
Thm_C9 ==
    (last_op = "render" /\ items_data # <<>>) =>
        LET hdr == KindPositions(story, "HostHeader")
            itm == KindPositions(story, "KeepTogether")
        IN  /\ {story[p].host : p \in hdr} = {items_data[k].host : k \in 1..Len(items_data)}
            /\ \A p, q \in hdr :
                   p < q => FirstSeen(items_data, story[p].host)
                               < FirstSeen(items_data, story[q].host)
            /\ \A k \in 1..Len(items_data) :
                   Cardinality({p \in itm : story[p].idx = k}) = 1
            /\ \A p \in itm :
                   /\ story[p].idx \in 1..Len(items_data)
                   /\ story[p].host = items_data[story[p].idx].host
                   /\ story[p].item = items_data[story[p].idx].item
                   /\ SectionHostAt(story, p) = story[p].host
            /\ \A p, q \in itm :
                   (p < q /\ story[p].host = story[q].host) => story[p].idx < story[q].idx

\* hosts interleaved in the add sequence: h1, h2, h1
Wit_C9 ==
    /\ last_op = "render"
    /\ ret = PdfPath
    /\ Len(items_data) = 3
    /\ items_data[1].host = items_data[3].host
    /\ items_data[1].host # items_data[2].host

\* C10: a render over H >= 1 distinct hosts emits exactly H-1 page breaks,
\* each immediately before a host header; the story starts with the first
\* host's header, and every later header directly follows a page break.
Thm_C10 ==
    (last_op = "render" /\ items_data # <<>>) =>
        LET brk == KindPositions(story, "PageBreak")
            hdr == KindPositions(story, "HostHeader")
            H == Cardinality({items_data[k].host : k \in 1..Len(items_data)})
        IN  /\ H >= 1
            /\ Cardinality(brk) = H - 1
            /\ Cardinality(hdr) = H
            /\ story[1].kind = "HostHeader"
            /\ \A p \in brk : p < Len(story) /\ story[p+1].kind = "HostHeader"
            /\ \A p \in hdr : p > 1 => story[p-1].kind = "PageBreak"

Wit_C10 ==
    /\ last_op = "render"
    /\ Cardinality({items_data[k].host : k \in 1..Len(items_data)}) = 2
    /\ Cardinality(KindPositions(story, "PageBreak")) = 1

\* the text a field shows for what was supplied for it: the supplied text
\* without the white space around it, or the field's default when that is empty
Shown(supplied, key) ==
    IF Strip(supplied) # <<>> THEN Strip(supplied) ELSE ReportDefaults[key]

\* the hosts that have a section in a story over data
SectionHosts(data) == {data[k].host : k \in 1..Len(data)}

\* C11: in every host section the uptime table has exactly one data row per
\* uptime field that is not blank (white space only counts as blank), in the
\* order fecha, servidor, bd, and with all three blank the section has
\* neither the uptime title nor the table.
Thm_C11 ==
    (last_op = "render" /\ items_data # <<>>) =>
        \A h \in SectionHosts(items_data) :
            LET nonblank == {k \in Range(UptimeKeys) :
                                \E j \in 1..Len(DictGet(report_config, k, <<>>)) :
                                    report_config[k][j] \notin Whitespace}
                titles == {p \in KindPositions(story, "UptimeTitle") : story[p].host = h}
                tables == {p \in KindPositions(story, "UptimeTable") : story[p].host = h}
            IN  IF nonblank = {}
                THEN titles = {} /\ tables = {}
                ELSE /\ Cardinality(titles) = 1
                     /\ Cardinality(tables) = 1
                     /\ \A p \in tables :
                          LET rows == story[p].rows IN
                          /\ SectionHostAt(story, p) = h
                          /\ p - 1 \in titles
                          /\ Len(rows) = Cardinality(nonblank)
                          /\ {rows[j].key : j \in 1..Len(rows)} = nonblank
                          /\ \A j \in 1..Len(rows) :
                                /\ rows[j].value = Strip(report_config[rows[j].key])
                                /\ rows[j].label = UptimeLabel(rows[j].key)
                          /\ \A i, j \in 1..Len(rows) :
                                i < j => \E a, b \in 1..Len(UptimeKeys) :
                                            /\ a < b
                                            /\ UptimeKeys[a] = rows[i].key
                                            /\ UptimeKeys[b] = rows[j].key

\* only uptime_bd filled, the two other fields holding white space
Wit_C11 ==
    /\ last_op = "render"
    /\ ret = PdfPath
    /\ report_config = UptimeConfig({"uptime_bd"})
    /\ \E p \in KindPositions(story, "UptimeTable") :
          /\ Len(story[p].rows) = 1
          /\ story[p].rows[1].key = "uptime_bd"

\* C12: in every host section each operative field shows the text supplied
\* for that field and the host of the section when it is not blank, and the
\* field's default otherwise, also when the host has no entry; each dimension
\* row shows the supplied text when it is not blank and its default otherwise.
Thm_C12 ==
    (last_op = "render" /\ items_data # <<>>) =>
        /\ \A h \in SectionHosts(items_data) :
              /\ Cardinality({p \in KindPositions(story, "Operative") :
                                 SectionHostAt(story, p) = h}) = 1
              /\ Cardinality({p \in KindPositions(story, "Dimensions") :
                                 SectionHostAt(story, p) = h}) = 1
        /\ \A p \in KindPositions(story, "Operative") :
              LET h == SectionHostAt(story, p)
                  entry == DictGet(host_configs, h, EmptyDict)
              IN  \A k \in Range(OperativeKeys) :
                      story[p][k] = Shown(DictGet(entry, k, <<>>), k)
        /\ \A p \in KindPositions(story, "Dimensions") :
              /\ Len(story[p].rows) = Len(DimKeys)
              /\ \A j \in 1..Len(DimKeys) :
                    story[p].rows[j] = Shown(DictGet(report_config, DimKeys[j], <<>>), DimKeys[j])

\* two sections: the first host has no entry, the second has a filled field
Wit_C12 ==
    /\ last_op = "render"
    /\ ret = PdfPath
    /\ Len(items_data) = 2
    /\ items_data[1].host \notin DOMAIN host_configs
    /\ items_data[2].host \in DOMAIN host_configs
    /\ host_configs[items_data[2].host]["riesgos"] = Filled(items_data[2].host, "riesgos")
    /\ \E p \in KindPositions(story, "Operative") :
          /\ story[p].host = items_data[2].host
          /\ story[p].riesgos = <<items_data[2].host, "riesgos">>

\* a story with the chart put back into every item subsection that has
\* trend data
WithCharts(st, data) ==
    [p \in 1..Len(st) |->
        IF st[p].kind = "KeepTogether"
        THEN [st[p] EXCEPT !.chart = data[st[p].idx].trends]
        ELSE st[p]]

\* C13: a rendering in which the chart of some entries cannot be drawn still
\* hands the whole story to the builder: every entry keeps its subsection
\* with title, statistics cards and, when it has a narrative, the analysis
\* paragraph after it; the subsection lacks the chart exactly for the
\* entries whose chart failed; everything else is as in a rendering without
\* failures.
Thm_C13 ==
    (last_op = "render" /\ items_data # <<>>) =>
        /\ chart_errors \subseteq 1..Len(items_data)
        /\ \A k \in 1..Len(items_data) :
              LET own == {p \in KindPositions(story, "KeepTogether") : story[p].idx = k}
                  ana == {p \in KindPositions(story, "Analysis") : story[p].idx = k}
              IN  /\ Cardinality(own) = 1
                  /\ \A p \in own :
                        /\ story[p].item = items_data[k].item
                        /\ story[p].host = items_data[k].host
                        /\ story[p].cards = items_data[k].stats
                        /\ story[p].chart = (items_data[k].trends /\ k \notin chart_errors)
                        /\ ana = IF items_data[k].conclusion THEN {p + 1} ELSE {}
        /\ WithCharts(story, items_data) = BuildStory(items_data, {})

\* three entries, the chart of the second one fails, the report is built
Wit_C13 ==
    /\ last_op = "render"
    /\ ret = PdfPath
    /\ Len(items_data) = 3
    /\ chart_errors = {2}
    /\ items_data[2].conclusion
    /\ \E p \in KindPositions(story, "KeepTogether") :
          story[p].idx = 2 /\ ~story[p].chart /\ story[p].cards

\* the events a chart image that was fetched and processed leaves
ImageEvents == <<"chart_png", "legend_png">>

\* C14: a report rendering that fails ends only the rendering: it is
\* attempted only once the item loop is over and the success/total summary
\* is written, it changes neither the success count nor what was processed
\* or written, and the run goes on to its final notification, never to its
\* exception handler.
Thm_C14 ==
    /\ [](\A w \in Workers :
            dl[w].pc \in {"render", "notify"} => (dl[w].summary /\ dl[w].cause = ""))
    /\ [][\A w \in Workers :
            (dl[w].pc = "render" /\ dl'[w] # dl[w]) =>
                /\ dl'[w].pc = "notify"
                /\ dl'[w].pdf_ret \in {NoPath, PdfPath}
                /\ dl'[w].success_count = dl[w].success_count
                /\ dl'[w].processed = dl[w].processed
                /\ dl'[w].events = dl[w].events
                /\ dl'[w].entries = dl[w].entries
                /\ dl'[w].summary
                /\ dl'[w].cause = ""
       ]_vars

\* a run with two charts saved whose report could not be rendered
Wit_C14 ==
    \E w \in Workers :
        /\ dl[w].pc = "notify"
        /\ dl[w].gen_pdf
        /\ dl[w].entries # <<>>
        /\ dl[w].pdf_ret = NoPath
        /\ dl[w].success_count = 2
        /\ dl[w].summary

\* C15: no failure of the narrative request leaves get_ai_conclusion as an
\* exception: analyze_item never ends by raising.
CE_C15 == \A w \in Workers : dl[w].analysis # "narrative_raises"

\* C16: for an item analysed without an API key no narrative request is
\* sent and no narrative results; with trend data its chart, legend and CSV
\* are written and its statistics computed, and nothing else happens.
Thm_C16 ==
    \A w \in Workers :
        (dl[w].pc = "progress" /\ dl[w].analysis # "" /\ ~dl[w].api_key) =>
            /\ "narrative_request" \notin Range(dl[w].events)
            /\ "conclusion_txt" \notin Range(dl[w].events)
            /\ dl[w].analysis \in {"no_trends", "no_conclusion"}
            /\ dl[w].analysis = "no_conclusion" =>
                  dl[w].events = ImageEvents \o <<"get_trends", "trends_csv", "statistics">>
            /\ \A k \in 1..Len(dl[w].entries) : ~dl[w].entries[k].conclusion

\* the analysis box ticked with no key typed, an item with trend data
Wit_C16 ==
    \E w \in Workers :
        /\ dl[w].pc = "progress"
        /\ dl[w].gen_conclusion
        /\ ~dl[w].api_key
        /\ dl[w].analysis = "no_conclusion"
        /\ "statistics" \in Range(dl[w].events)

MonthBefore(n) ==
    IF n.month = 1 THEN [year |-> n.year - 1, month |-> 12]
    ELSE [year |-> n.year, month |-> n.month - 1]

\* C20: previous_month resolved at any moment gives as start the first
\* instant of the calendar month before the month of that moment and as end
\* the last instant (the last whole second) of that same month.
Thm_C20 ==
    (period_type = "previous_month" /\ timestamps # NoCall) =>
        /\ timestamps.state = "returned"
        /\ LET from_ts == timestamps.value[1]
               to_ts == timestamps.value[2]
               pm == MonthBefore(now)
               first_of_now == Timestamp([year |-> now.year, month |-> now.month,
                                          day |-> 1, second |-> 0])
           IN  /\ to_ts = first_of_now - 1
               /\ to_ts < Timestamp(now)
               /\ from_ts = to_ts + 1 - DaysInMonth(pm.year, pm.month) * SecondsPerDay
               /\ FromTimestamp(from_ts) =
                     [year |-> pm.year, month |-> pm.month, day |-> 1, second |-> 0]
               /\ FromTimestamp(to_ts) =
                     [year |-> pm.year, month |-> pm.month,
                      day |-> DaysInMonth(pm.year, pm.month), second |-> SecondsPerDay - 1]

\* resolved on 31 March of a leap year: February has 29 days
Wit_C20 ==
    /\ period_type = "previous_month"
    /\ now = [year |-> 2024, month |-> 3, day |-> 31, second |-> 86399]
    /\ timestamps.state = "returned"
    /\ FromTimestamp(timestamps.value[2]).day = 29

\* the fields of a summary
SummaryKeys ==
    {"total_data_points", "avg_monthly", "max_absolute", "min_absolute", "p95", "p99",
     "std_deviation", "peak_hours", "peak_days", "period_start", "period_end"}

\* C19: calculate_statistics of an empty series returns the result with no
\* field at all, and returns it for no series with points: every summary of
\* a series with points has all the fields and counts at least one point.
Thm_C19 ==
    stats # NoCall =>
        /\ stats.state = "returned"
        /\ trends = <<>> => DOMAIN stats.value = {}
        /\ trends # <<>> =>
            /\ DOMAIN stats.value = SummaryKeys
            /\ stats.value.total_data_points = Len(trends)
            /\ stats.value.total_data_points >= 1

Wit_C19 ==
    /\ trends = <<>>
    /\ stats.state = "returned"
    /\ DOMAIN stats.value = {}

\* the three kinds of period and the relative expressions they stand for
RecognisedPeriods == {"last_30_days", "previous_month", "current_month"}
RelativeExprs == {"now", "now-30d", "now-1M/M", "now/M"}

CE_C22 ==
    (stats # NoCall /\ trends # <<>>) =>
        /\ stats.value.min_absolute <= stats.value.avg_monthly
        /\ stats.value.avg_monthly <= stats.value.max_absolute

\* the position of a day in the week, Monday = 0
WeekdayIndex(d) == (CHOOSE i \in 1..7 : WeekdayNames[i] = d) - 1

\* the hour a label of peak_hours writes
LabelHour(l) == 10 * l[1] + l[2]

\* the reorderings of a series
Reorderings(t) ==
    {[i \in 1..Len(t) |-> t[p[i]]] :
        p \in {q \in [1..Len(t) -> 1..Len(t)] : \A i, j \in 1..Len(t) : q[i] = q[j] => i = j}}

\* neither mean is greater
MeanEqual(t, column, a, b) ==
    /\ ~MeanGreater(GroupMean(t, column, a), GroupMean(t, column, b))
    /\ ~MeanGreater(GroupMean(t, column, b), GroupMean(t, column, a))

\* buckets of equal mean are listed in peak_hours by ascending hour
HourTiesAscending ==
    \A i, j \in 1..Len(stats.value.peak_hours) :
        LET a == LabelHour(stats.value.peak_hours[i])
            b == LabelHour(stats.value.peak_hours[j])
        IN  (i < j /\ MeanEqual(trends, "hour", a, b)) => a < b

\* buckets of equal mean are listed in peak_days by ascending weekday index
DayTiesAscending ==
    \A i, j \in 1..Len(stats.value.peak_days) :
        LET a == stats.value.peak_days[i]
            b == stats.value.peak_days[j]
        IN  (i < j /\ MeanEqual(trends, "day_name", a, b)) =>
                WeekdayIndex(a) < WeekdayIndex(b)

\* every reordering of the series has the same peak lists
PeaksOrderIndependent ==
    \A t \in Reorderings(trends) :
        /\ Summary(t, FALSE).peak_hours = stats.value.peak_hours
        /\ Summary(t, FALSE).peak_days = stats.value.peak_days

\* C23 as stated: buckets of equal mean are listed by ascending hour in
\* peak_hours and by ascending weekday index (Monday = 0) in peak_days, and
\* every reordering of the series gives the same two lists.
CE_C23 ==
    (stats # NoCall /\ trends # <<>>) =>
        /\ HourTiesAscending
        /\ DayTiesAscending
        /\ PeaksOrderIndependent

\* the hours of the day the series has points in
HoursPresent == {HourOf(trends[i].clock) : i \in 1..Len(trends)}

\* the mean of value_avg over the points of hour a is below that of hour b
HourMeanBelow(a, b) ==
    LET ma == GroupMean(trends, "hour", a)
        mb == GroupMean(trends, "hour", b)
    IN  ma[1] * mb[2] < mb[1] * ma[2]

\* C24: for a series with points, peak_hours lists min(3, hours present)
\* different hours that have points, each written as two digits and ":00",
\* no hour before one of greater mean, and no hour left out has a mean
\* greater than a listed one.
Thm_C24 ==
    (stats # NoCall /\ trends # <<>>) =>
        LET peaks == stats.value.peak_hours
            listed == {LabelHour(peaks[i]) : i \in 1..Len(peaks)}
        IN  /\ Len(peaks) = IF Cardinality(HoursPresent) < 3
                            THEN Cardinality(HoursPresent) ELSE 3
            /\ Cardinality(listed) = Len(peaks)
            /\ listed \subseteq HoursPresent
            /\ \A i \in 1..Len(peaks) :
                  /\ Len(peaks[i]) = 5
                  /\ peaks[i][1] \in 0..2 /\ peaks[i][2] \in 0..9
                  /\ <<peaks[i][3], peaks[i][4], peaks[i][5]>> = <<":", 0, 0>>
            /\ \A i, j \in 1..Len(peaks) :
                  i < j => ~HourMeanBelow(LabelHour(peaks[i]), LabelHour(peaks[j]))
            /\ \A o \in HoursPresent \ listed : \A h \in listed : ~HourMeanBelow(h, o)

\* four hours 00..03 with 0.010, 0.045, 0.080, 0.045: the peaks are 02:00, then
\* 01:00 and 03:00, and 00:00 is left out
Wit_C24 ==
    /\ Len(trends) = 4
    /\ \A i \in 1..4 : HourOf(trends[i].clock) = i - 1
    /\ Column(trends, "value_avg") = <<10, 45, 80, 45>>
    /\ stats # NoCall
    /\ stats.value.peak_hours = <<HourLabel(2), HourLabel(1), HourLabel(3)>>

\* C25: a connect attempt is reported as a success, the session marked
\* connected and the templates loaded and shown, only if both the API login
\* and the web login of the chart session succeeded in it.
CE_C25 ==
    \A i \in 1..Len(afterQ) :
        afterQ[i].cb = "connect_success" =>
            /\ connected
            /\ chart_downloader = "logged_in"

\* C26: no foreground action makes a run abort or end with another number
\* of items than the queue had when the run counted it: a run does not raise
\* out of its loop, and at its summary it has taken as many items as it
\* counted.
CE_C26 ==
    \A w \in Workers :
        /\ dl[w].cause \notin {"dict_changed_size", "zero_division"}
        /\ dl[w].summary => Len(dl[w].processed) = dl[w].total

\* C27: the progress a run reports after an item, (i + 1) / total, is at most
\* 1 and is 1 exactly when every item of the selection has been taken.
CE_C27 ==
    \A w \in Workers :
        (dl[w].pc = "progress" /\ dl[w].total > 0) =>
            /\ Len(dl[w].processed) <= dl[w].total
            /\ Len(dl[w].processed) = dl[w].total <=>
                  Range(selected_items) \subseteq Range(dl[w].processed)

\* C29: the message box a run ends with says that a PDF report was generated
\* only if generate_report returned a path in that run.
CE_C29 ==
    \A w \in Workers :
        (dl[w].pc = "notify" /\ NotifyBox(dl[w]) = "info_pdf") => dl[w].pdf_ret # NoPath

\* a click on the download button starts the download thread
StartsWorker == \E w \in Workers : ~Running(w) /\ dl'[w].pc = "setup"

\* C30: a download thread is started only while the session is connected;
\* after a reconnect that failed none is started until a connect succeeds.
CE_C30 == [][StartsWorker => connected]_vars

\* C28: two distinct items of one run never have an output file of the same
\* path.
CE_C28 ==
    artifact_paths # NoCall =>
        artifact_paths.value[1] \cap artifact_paths.value[2] = {}

=============================================================================
